---- MODULE Spec2Model ----
(***************************************************************************)
(* State-machine model of solfees-be/src/rpc_solana.rs: the ingest reducer *)
(* (run_update_loop) with its blockhash store and recent-slots window, the *)
(* request multiplexer (on_request) and the per-slot fee index.            *)
(***************************************************************************)
EXTENDS Integers, Sequences, FiniteSets, TLC

\* ------------------------------------------------------------------------
\* Program constants.  The source values are too large to enumerate, so the
\* model keeps the names and the way the code uses them and scales the
\* numbers down: 150 -> 3, 300 -> 2, 10 -> 1.
\* ------------------------------------------------------------------------
MAX_NUM_RECENT_SLOT_INFO == 3

MAX_RECENT_BLOCKHASHES == 2

FINALIZED_MARGIN == 1

\* Width of the slot type (u64 in the source, 3 bits here): 0 - 1 wraps to
\* SlotModulus - 1 in a build without overflow checks.
SlotBits == 3

SlotModulus == 2 ^ SlotBits

\* ------------------------------------------------------------------------
\* Bounds of the model.
\* ------------------------------------------------------------------------
MaxSlot == 2

\* The number of events the history variable geyser_log keeps.
MaxLogged == 2

SlotIds == 0 .. MaxSlot

Hashes == {"H1", "H2"}

Heights == {1, 2}

Commitments == {"Processed", "Confirmed", "Finalized"}

\* Option<T>: None is the empty sequence, Some(x) the one-element sequence.
None == <<>>

Some(x) == <<x>>

Min(S) == CHOOSE x \in S : \A y \in S : x <= y

Max(S) == CHOOSE x \in S : \A y \in S : x >= y

\* The sequences over S of length at most n.
SeqsUpTo(S, n) == UNION {[1 .. k -> S] : k \in 0 .. n}

\* BTreeMap::pop_first on a non-empty map: drop the lowest key.
PopFirst(map) == [k \in DOMAIN map \ {Min(DOMAIN map)} |-> map[k]]

\* BTreeMap::insert: insert or overwrite.
Insert(map, key, value) ==
    [k \in DOMAIN map \cup {key} |-> IF k = key THEN value ELSE map[k]]

\* ------------------------------------------------------------------------
\* Slot fee index (RecentPrioritizationFeesSlot) and slot info.
\* A transaction is [vote, fee, unit_price, units_consumed, writable,
\* readable]; writable and readable are ascending sequences of pubkeys.
\* ------------------------------------------------------------------------
RECURSIVE InsertSorted(_, _)
InsertSorted(x, sorted) ==
    IF sorted = <<>> THEN <<x>>
    ELSE IF x <= Head(sorted) THEN <<x>> \o sorted
    ELSE <<Head(sorted)>> \o InsertSorted(x, Tail(sorted))

\* slice::sort_unstable on u64 values: the ascending rearrangement.
RECURSIVE SortUnstable(_)
SortUnstable(seq) ==
    IF seq = <<>> THEN <<>> ELSE InsertSorted(Head(seq), SortUnstable(Tail(seq)))

RECURSIVE SumSeq(_)
SumSeq(seq) == IF seq = <<>> THEN 0 ELSE Head(seq) + SumSeq(Tail(seq))

\* The unit prices pushed for `account`: one per occurrence of the account in
\* the writable list of each non-vote transaction, in transaction order.
RECURSIVE AccountPrices(_, _)
AccountPrices(transactions, account) ==
    IF transactions = <<>> THEN <<>>
    ELSE LET tx == Head(transactions)
             hits == IF tx.vote THEN <<>>
                     ELSE SelectSeq(tx.writable, LAMBDA w : w = account)
         IN [i \in 1 .. Len(hits) |-> tx.unit_price]
                \o AccountPrices(Tail(transactions), account)

\* RecentPrioritizationFeesSlot::create
FeesCreate(transactions) ==
    LET nonvote == SelectSeq(transactions, LAMBDA tx : ~tx.vote)
        accounts == UNION {{nonvote[i].writable[j] : j \in 1 .. Len(nonvote[i].writable)}
                              : i \in 1 .. Len(nonvote)}
    IN [transaction_fees |->
            SortUnstable([i \in 1 .. Len(nonvote) |-> nonvote[i].unit_price]),
        writable_account_fees |->
            [a \in accounts |-> SortUnstable(AccountPrices(transactions, a))]]

\* get_percentile without the clamp of the percentile to 9_999.
get_percentile_unclamped(fees, percentile) ==
    LET index == (percentile * Len(fees)) \div 10000
    IN IF index < Len(fees) THEN Some(fees[index + 1]) ELSE None

\* RecentPrioritizationFeesSlot::get_percentile
get_percentile(fees, percentile) ==
    LET clamped == IF percentile < 9999 THEN percentile ELSE 9999
        index == (clamped * Len(fees)) \div 10000
    IN IF index < Len(fees) THEN Some(fees[index + 1]) ELSE None

\* RecentPrioritizationFeesSlot::get_with_percentile
get_with_percentile(fees, percentile) ==
    IF percentile # None THEN get_percentile(fees, percentile[1])
    ELSE IF fees = <<>> THEN None ELSE Some(fees[1])

\* The loop of get_fee with `fee = account_fee` where the code takes the max.
RECURSIVE GetFeeLoopOverwrite(_, _, _, _)
GetFeeLoopOverwrite(slot_fees, account_keys, percentile, fee) ==
    IF account_keys = <<>> THEN fee
    ELSE LET account_key == Head(account_keys)
             account_fee ==
                 IF account_key \in DOMAIN slot_fees.writable_account_fees
                 THEN get_with_percentile(
                          slot_fees.writable_account_fees[account_key], percentile)
                 ELSE None
             next == IF account_fee # None THEN account_fee[1] ELSE fee
         IN GetFeeLoopOverwrite(slot_fees, Tail(account_keys), percentile, next)

\* The loop of get_fee over account_keys, starting from `fee`.
RECURSIVE GetFeeLoop(_, _, _, _)
GetFeeLoop(slot_fees, account_keys, percentile, fee) ==
    IF account_keys = <<>> THEN fee
    ELSE LET account_key == Head(account_keys)
             account_fee ==
                 IF account_key \in DOMAIN slot_fees.writable_account_fees
                 THEN get_with_percentile(
                          slot_fees.writable_account_fees[account_key], percentile)
                 ELSE None
             next == IF account_fee # None /\ account_fee[1] > fee
                     THEN account_fee[1] ELSE fee
         IN GetFeeLoop(slot_fees, Tail(account_keys), percentile, next)

\* RecentPrioritizationFeesSlot::get_fee
get_fee(slot_fees, account_keys, percentile) ==
    LET global == get_with_percentile(slot_fees.transaction_fees, percentile)
        fee == IF global = None THEN 0 ELSE global[1]
    IN GetFeeLoop(slot_fees, account_keys, percentile, fee)

\* StreamsSlotInfo::new
StreamsSlotInfoNew(slot, hash, height, transactions) ==
    [slot |-> slot,
     commitment |-> "Processed",
     hash |-> hash,
     height |-> height,
     transactions |-> transactions,
     total_transactions_vote |-> Len(SelectSeq(transactions, LAMBDA tx : tx.vote)),
     fees |-> FeesCreate(transactions),
     total_fee |-> SumSeq([i \in 1 .. Len(transactions) |-> transactions[i].fee]),
     total_units_consumed |->
         SumSeq([i \in 1 .. Len(transactions) |->
                    IF transactions[i].units_consumed = None THEN 0
                    ELSE transactions[i].units_consumed[1]])]

\* slice::binary_search over pubkeys[left + 1 .. right]: whether `pubkey` is
\* found.  The answer is that of a membership test when `pubkeys` is ascending.
RECURSIVE BinarySearch(_, _, _, _)
BinarySearch(pubkeys, pubkey, left, right) ==
    IF left >= right THEN FALSE
    ELSE LET mid == left + (right - left) \div 2
         IN IF pubkeys[mid + 1] = pubkey THEN TRUE
            ELSE IF pubkeys[mid + 1] < pubkey
                 THEN BinarySearch(pubkeys, pubkey, mid + 1, right)
                 ELSE BinarySearch(pubkeys, pubkey, left, mid)

\* filter_pubkeys with `any` where the code has `all`.
filter_pubkeys_any(required, pubkeys) ==
    \/ required = <<>>
    \/ \E i \in 1 .. Len(required) :
           BinarySearch(pubkeys, required[i], 0, Len(pubkeys))

\* SlotSubscribeFilter::filter_pubkeys
filter_pubkeys(required, pubkeys) ==
    \/ required = <<>>
    \/ \A i \in 1 .. Len(required) :
           BinarySearch(pubkeys, required[i], 0, Len(pubkeys))

\* `sum as f64 / count as f64`, kept as the exact fraction; 0f64 for no fee.
FeeAverage(fees) ==
    IF Len(fees) = 0 THEN [sum |-> 0, count |-> 1]
    ELSE [sum |-> SumSeq(fees), count |-> Len(fees)]

\* get_filtered reporting the non-vote transactions as the total.
get_filtered_total_non_vote(info, filter) ==
    LET matched == SelectSeq(info.transactions, LAMBDA tx :
                       /\ ~tx.vote
                       /\ filter_pubkeys(filter.read_write, tx.writable)
                       /\ filter_pubkeys(filter.read_only, tx.readable))
        fees == [i \in 1 .. Len(matched) |-> matched[i].fee]
        sorted == SortUnstable(fees)
    IN [type |-> "Slot",
        slot |-> info.slot,
        hash |-> info.hash,
        height |-> info.height,
        total_transactions_filtered |-> Len(fees),
        total_transactions_vote |-> info.total_transactions_vote,
        total_transactions |->
            Len(info.transactions) - info.total_transactions_vote,
        fee_average |-> FeeAverage(fees),
        fee_levels |-> IF filter.levels = <<>> THEN <<>>
                       ELSE [i \in 1 .. Len(filter.levels) |->
                                get_percentile(sorted, filter.levels[i])],
        total_fee |-> info.total_fee,
        total_units_consumed |-> info.total_units_consumed]

\* StreamsSlotInfo::get_filtered; a filter is [read_write, read_only, levels].
get_filtered(info, filter) ==
    LET matched == SelectSeq(info.transactions, LAMBDA tx :
                       /\ ~tx.vote
                       /\ filter_pubkeys(filter.read_write, tx.writable)
                       /\ filter_pubkeys(filter.read_only, tx.readable))
        fees == [i \in 1 .. Len(matched) |-> matched[i].fee]
        sorted == SortUnstable(fees)
    IN [type |-> "Slot",
        slot |-> info.slot,
        hash |-> info.hash,
        height |-> info.height,
        total_transactions_filtered |-> Len(fees),
        total_transactions_vote |-> info.total_transactions_vote,
        total_transactions |-> Len(info.transactions),
        fee_average |-> FeeAverage(fees),
        fee_levels |-> IF filter.levels = <<>> THEN <<>>
                       ELSE [i \in 1 .. Len(filter.levels) |->
                                get_percentile(sorted, filter.levels[i])],
        total_fee |-> info.total_fee,
        total_units_consumed |-> info.total_units_consumed]

\* ------------------------------------------------------------------------
\* Blockhash store (LatestBlockhashStorage).
\* ------------------------------------------------------------------------
\* LatestBlockhashStorage::default
StorageDefault ==
    [slots |-> <<>>,
     finalized_total |-> 0,
     slot_processed |-> 0,
     slot_confirmed |-> 0,
     slot_finalized |-> 0]

\* push_block storing the slot number where the code stores the height.
push_block_slot_as_height(storage, slot, height, hash) ==
    [storage EXCEPT !.slots =
        Insert(@, slot, [hash |-> hash, height |-> slot, commitment |-> "Processed"])]

\* LatestBlockhashStorage::push_block
push_block(storage, slot, height, hash) ==
    [storage EXCEPT !.slots =
        Insert(@, slot, [hash |-> hash, height |-> height, commitment |-> "Processed"])]

\* SetCommitment with Confirmed and Finalized advancing the cached slot only
\* on a strict increase, as Processed does.
SetCommitmentAdvanceOnly(storage, slot, commitment) ==
    IF slot \in DOMAIN storage.slots
    THEN LET updated == [storage EXCEPT !.slots[slot].commitment = commitment]
         IN IF commitment = "Processed" /\ slot > storage.slot_processed
            THEN [updated EXCEPT !.slot_processed = slot]
            ELSE IF commitment = "Confirmed" /\ slot > storage.slot_confirmed
            THEN [updated EXCEPT !.slot_confirmed = slot]
            ELSE IF commitment = "Finalized"
            THEN [updated EXCEPT !.finalized_total = @ + 1,
                                 !.slot_finalized =
                                     IF slot > @ THEN slot ELSE @]
            ELSE updated
    ELSE storage

\* SetCommitment with Processed adopting the incoming slot unconditionally,
\* as Confirmed and Finalized do.
SetCommitmentProcessedAdopts(storage, slot, commitment) ==
    IF slot \in DOMAIN storage.slots
    THEN LET updated == [storage EXCEPT !.slots[slot].commitment = commitment]
         IN IF commitment = "Processed"
            THEN [updated EXCEPT !.slot_processed = slot]
            ELSE IF commitment = "Confirmed"
            THEN [updated EXCEPT !.slot_confirmed = slot]
            ELSE IF commitment = "Finalized"
            THEN [updated EXCEPT !.finalized_total = @ + 1, !.slot_finalized = slot]
            ELSE updated
    ELSE storage

\* The first half of update_commitment: the entry and the cached latest slots.
SetCommitment(storage, slot, commitment) ==
    IF slot \in DOMAIN storage.slots
    THEN LET updated == [storage EXCEPT !.slots[slot].commitment = commitment]
         IN IF commitment = "Processed" /\ slot > storage.slot_processed
            THEN [updated EXCEPT !.slot_processed = slot]
            ELSE IF commitment = "Confirmed"
            THEN [updated EXCEPT !.slot_confirmed = slot]
            ELSE IF commitment = "Finalized"
            THEN [updated EXCEPT !.finalized_total = @ + 1, !.slot_finalized = slot]
            ELSE updated
    ELSE storage

\* The eviction loop running while the counter is at the limit or above it.
RECURSIVE EvictLoopAtLimit(_)
EvictLoopAtLimit(storage) ==
    IF storage.finalized_total >= MAX_RECENT_BLOCKHASHES + FINALIZED_MARGIN
    THEN IF DOMAIN storage.slots = {}
         THEN storage
         ELSE LET value == storage.slots[Min(DOMAIN storage.slots)]
              IN EvictLoopAtLimit([storage EXCEPT
                     !.slots = PopFirst(@),
                     !.finalized_total =
                         IF value.commitment = "Finalized" THEN @ - 1 ELSE @])
    ELSE storage

\* The eviction loop of update_commitment.  With an empty map pop_first
\* yields nothing and the loop would spin for ever: the storage is returned
\* with the counter still above the limit, which EvictionSpins detects.
RECURSIVE EvictLoop(_)
EvictLoop(storage) ==
    IF storage.finalized_total > MAX_RECENT_BLOCKHASHES + FINALIZED_MARGIN
    THEN IF DOMAIN storage.slots = {}
         THEN storage
         ELSE LET value == storage.slots[Min(DOMAIN storage.slots)]
              IN EvictLoop([storage EXCEPT
                     !.slots = PopFirst(@),
                     !.finalized_total =
                         IF value.commitment = "Finalized" THEN @ - 1 ELSE @])
    ELSE storage

EvictionSpins(storage) ==
    storage.finalized_total > MAX_RECENT_BLOCKHASHES + FINALIZED_MARGIN

\* update_commitment counting a Finalized status also when its slot is not in
\* the map.
update_commitment_counts_absent(storage, slot, commitment) ==
    EvictLoop(
        IF slot \notin DOMAIN storage.slots /\ commitment = "Finalized"
        THEN [storage EXCEPT !.finalized_total = @ + 1]
        ELSE SetCommitment(storage, slot, commitment))

\* LatestBlockhashStorage::update_commitment
update_commitment(storage, slot, commitment) ==
    EvictLoop(SetCommitment(storage, slot, commitment))

\* ------------------------------------------------------------------------
\* Recent-slots window.
\* ------------------------------------------------------------------------
\* while slots_info.len() >= MAX_NUM_RECENT_SLOT_INFO { slots_info.pop_first(); }
RECURSIVE WindowEvict(_)
WindowEvict(window) ==
    IF Cardinality(DOMAIN window) >= MAX_NUM_RECENT_SLOT_INFO
    THEN WindowEvict(PopFirst(window))
    ELSE window

\* slots_info.insert(slot, info) followed by the eviction loop.
WindowInsert(window, slot, info) == WindowEvict(Insert(window, slot, info))

\* ------------------------------------------------------------------------
\* Sub-request handlers of run_update_loop.
\* ------------------------------------------------------------------------
Success(id, result) == [id |-> id, ok |-> TRUE, result |-> result]

Failure(id, error) == [id |-> id, ok |-> FALSE, error |-> error]

InvalidParams(message) == [code |-> "invalid_params", message |-> message]

InternalError == [code |-> "internal_error"]

MinContextSlotNotReached(context_slot) ==
    [code |-> "MinContextSlotNotReached", context_slot |-> context_slot]

\* What a handler yields when `slot -= 1` overflows in a build with overflow
\* checks: the reducer task panics and no output exists.
Panic == [panic |-> TRUE]

\* match commitment { Processed => slot_processed, ... }
LatestSlot(storage, commitment) ==
    CASE commitment = "Processed" -> storage.slot_processed
      [] commitment = "Confirmed" -> storage.slot_confirmed
      [] commitment = "Finalized" -> storage.slot_finalized

\* slot -= 1 on the slot type without overflow checks.
WrappingDec(slot) == (slot + SlotModulus - 1) % SlotModulus

\* RollbackWalk leaving the loops at an absent slot number with the entry
\* found so far instead of failing.
RECURSIVE RollbackWalkBreak(_, _, _, _, _)
RollbackWalkBreak(slots, slot, commitment, rollback, overflow_checks) ==
    IF rollback = 0 THEN [status |-> "found", slot |-> slot]
    ELSE IF slot = 0 /\ overflow_checks THEN [status |-> "overflow", slot |-> slot]
    ELSE LET prev == WrappingDec(slot)
         IN IF prev \in DOMAIN slots
            THEN IF slots[prev].commitment = commitment
                 THEN RollbackWalkBreak(slots, prev, commitment, rollback - 1,
                                        overflow_checks)
                 ELSE RollbackWalkBreak(slots, prev, commitment, rollback,
                                        overflow_checks)
            ELSE [status |-> "found", slot |-> slot]

\* The rollback loops of the LatestBlockhash handler, standing on `slot` with
\* `rollback` steps left.  `value` always is the entry of `slot`.
RECURSIVE RollbackWalk(_, _, _, _, _)
RollbackWalk(slots, slot, commitment, rollback, overflow_checks) ==
    IF rollback = 0 THEN [status |-> "found", slot |-> slot]
    ELSE IF slot = 0 /\ overflow_checks THEN [status |-> "overflow", slot |-> slot]
    ELSE LET prev == WrappingDec(slot)
         IN IF prev \in DOMAIN slots
            THEN IF slots[prev].commitment = commitment
                 THEN RollbackWalk(slots, prev, commitment, rollback - 1, overflow_checks)
                 ELSE RollbackWalk(slots, prev, commitment, rollback, overflow_checks)
            ELSE [status |-> "absent", slot |-> prev]

\* RpcRequest::LatestBlockhash with the guard `slot <= min_context_slot`.
HandleLatestBlockhashGuardInclusive(request, storage, overflow_checks) ==
    IF request.rollback > MAX_RECENT_BLOCKHASHES
    THEN Failure(request.id, InvalidParams("rollback exceeds 300"))
    ELSE LET slot == LatestSlot(storage, request.commitment)
         IN IF request.min_context_slot # None /\ slot <= request.min_context_slot[1]
            THEN Failure(request.id, MinContextSlotNotReached(slot))
            ELSE IF slot \notin DOMAIN storage.slots
            THEN Failure(request.id, InternalError)
            ELSE LET walk == RollbackWalk(storage.slots, slot, request.commitment,
                                          request.rollback, overflow_checks)
                 IN IF walk.status = "overflow" THEN Panic
                    ELSE IF walk.status = "absent"
                    THEN Failure(request.id, InvalidParams("failed to rollback block"))
                    ELSE Success(request.id,
                            [context_slot |-> walk.slot,
                             blockhash |-> storage.slots[walk.slot].hash,
                             last_valid_block_height |->
                                 storage.slots[walk.slot].height + MAX_RECENT_BLOCKHASHES])

\* RpcRequest::LatestBlockhash
HandleLatestBlockhash(request, storage, overflow_checks) ==
    IF request.rollback > MAX_RECENT_BLOCKHASHES
    THEN Failure(request.id, InvalidParams("rollback exceeds 300"))
    ELSE LET slot == LatestSlot(storage, request.commitment)
         IN IF request.min_context_slot # None /\ slot < request.min_context_slot[1]
            THEN Failure(request.id, MinContextSlotNotReached(slot))
            ELSE IF slot \notin DOMAIN storage.slots
            THEN Failure(request.id, InternalError)
            ELSE LET walk == RollbackWalk(storage.slots, slot, request.commitment,
                                          request.rollback, overflow_checks)
                 IN IF walk.status = "overflow" THEN Panic
                    ELSE IF walk.status = "absent"
                    THEN Failure(request.id, InvalidParams("failed to rollback block"))
                    ELSE Success(request.id,
                            [context_slot |-> walk.slot,
                             blockhash |-> storage.slots[walk.slot].hash,
                             last_valid_block_height |->
                                 storage.slots[walk.slot].height + MAX_RECENT_BLOCKHASHES])

\* The keys of a BTreeMap in iteration order.
RECURSIVE AscendingKeys(_)
AscendingKeys(keys) ==
    IF keys = {} THEN <<>> ELSE <<Min(keys)>> \o AscendingKeys(keys \ {Min(keys)})

\* RpcRequest::RecentPrioritizationFees asking every slot for its global
\* value only, the listed accounts left out.
HandleRecentPrioritizationFeesNoKeys(request, window) ==
    LET order == AscendingKeys(DOMAIN window)
    IN Success(request.id,
           [i \in 1 .. Len(order) |->
               [slot |-> order[i],
                prioritization_fee |->
                    get_fee(window[order[i]].fees, <<>>, request.percentile)]])

\* RpcRequest::RecentPrioritizationFees
HandleRecentPrioritizationFees(request, window) ==
    LET order == AscendingKeys(DOMAIN window)
    IN Success(request.id,
           [i \in 1 .. Len(order) |->
               [slot |-> order[i],
                prioritization_fee |->
                    get_fee(window[order[i]].fees, request.pubkeys, request.percentile)]])

\* RpcRequest::Slot
HandleSlot(request, storage) ==
    LET slot == LatestSlot(storage, request.commitment)
    IN IF request.min_context_slot # None /\ slot < request.min_context_slot[1]
       THEN Failure(request.id, MinContextSlotNotReached(slot))
       ELSE Success(request.id, slot)

\* The closure mapped over rpc_requests.requests.
HandleRequest(request, storage, window, overflow_checks) ==
    CASE request.method = "LatestBlockhash" ->
             HandleLatestBlockhash(request, storage, overflow_checks)
      [] request.method = "RecentPrioritizationFees" ->
             HandleRecentPrioritizationFees(request, window)
      [] request.method = "Slot" -> HandleSlot(request, storage)

\* ------------------------------------------------------------------------
\* on_request: dispatch of the calls, splice of the reducer's outputs and the
\* final collection.  A call is [kind |-> "Notification"], [kind |->
\* "Invalid", id] or [kind |-> "MethodCall", id, method, params]; the
\* protocol version tag copied from a call to its output is left out.
\* ------------------------------------------------------------------------
\* JsonrpcId::Null; the ids of the calls are 1, 2, ...
NullId == 0

MAX_TX_ACCOUNT_LOCKS == 2

InvalidRequest == [code |-> "invalid_request"]

MethodNotFound == [code |-> "method_not_found"]

RpcVersionInfo == [solana_core |-> "version", feature_set |-> "feature_set"]

\* The params of a method call as the parsers see them: `parses` is whether
\* the ReqParams of the method accept them, `empty` whether expect_no_params
\* does; the other fields are the values parsed, defaults where not given.
Params(parses, empty, commitment, rollback, min_context_slot, pubkeys, percentile) ==
    [parses |-> parses, empty |-> empty, commitment |-> commitment,
     rollback |-> rollback, min_context_slot |-> min_context_slot,
     pubkeys |-> pubkeys, percentile |-> percentile]

\* commitment.unwrap_or_default().into(): the default level is Finalized.
CommitmentOrDefault(commitment) ==
    IF commitment = None THEN "Finalized" ELSE commitment[1]

Local(output) == [output |-> Some(output), request |-> None]

Remote(request) == [output |-> None, request |-> Some(request)]

\* One turn of `for call in calls`: the output pushed and the request pushed.
DispatchCall(mode, call) ==
    CASE call.kind = "Notification" -> Local(Failure(NullId, InvalidRequest))
      [] call.kind = "Invalid" -> Local(Failure(call.id, InvalidRequest))
      [] call.kind = "MethodCall" ->
         CASE call.method = "getLatestBlockhash" ->
                  IF call.params.parses
                  THEN Remote([method |-> "LatestBlockhash",
                               id |-> call.id,
                               commitment |-> CommitmentOrDefault(call.params.commitment),
                               rollback |-> IF mode = "Solana" THEN 0
                                            ELSE call.params.rollback,
                               min_context_slot |-> call.params.min_context_slot])
                  ELSE Local(Failure(call.id, InvalidParams("parse")))
           [] call.method = "getRecentPrioritizationFees" ->
                  IF ~call.params.parses
                  THEN Local(Failure(call.id, InvalidParams("parse")))
                  ELSE IF Len(call.params.pubkeys) > MAX_TX_ACCOUNT_LOCKS
                  THEN Local(Failure(call.id, InvalidParams("Too many inputs provided")))
                  ELSE IF /\ mode = "Triton"
                          /\ call.params.percentile # None
                          /\ call.params.percentile[1] > 10000
                  THEN Local(Failure(call.id, InvalidParams("Percentile is too big")))
                  ELSE Remote([method |-> "RecentPrioritizationFees",
                               id |-> call.id,
                               pubkeys |-> call.params.pubkeys,
                               percentile |-> IF mode = "Solana" THEN None
                                              ELSE call.params.percentile])
           [] call.method = "getSlot" ->
                  IF call.params.parses
                  THEN Remote([method |-> "Slot",
                               id |-> call.id,
                               commitment |-> CommitmentOrDefault(call.params.commitment),
                               min_context_slot |-> call.params.min_context_slot])
                  ELSE Local(Failure(call.id, InvalidParams("parse")))
           [] call.method = "getVersion" ->
                  IF call.params.empty
                  THEN Local(Success(call.id, RpcVersionInfo))
                  ELSE Local(Failure(call.id, InvalidParams("expect_no_params")))
           [] OTHER -> Local(Failure(call.id, MethodNotFound))

\* The requests pushed by the loop over the calls, in call order.
RECURSIVE DispatchRequests(_, _)
DispatchRequests(mode, calls) ==
    IF calls = <<>> THEN <<>>
    ELSE DispatchCall(mode, Head(calls)).request
             \o DispatchRequests(mode, Tail(calls))

\* The output vector after the loop over the calls.
DispatchOutputs(mode, calls) ==
    [i \in 1 .. Len(calls) |-> DispatchCall(mode, calls[i]).output]

\* while index < outputs.len() && outputs[index].is_some() { index += 1 }
RECURSIVE SkipFilled(_, _)
SkipFilled(task_outputs, index) ==
    IF index < Len(task_outputs) /\ task_outputs[index + 1] # None
    THEN SkipFilled(task_outputs, index + 1)
    ELSE index

\* The splice taking the reducer's outputs from the last to the first.
RECURSIVE SpliceReversed(_, _, _)
SpliceReversed(task_outputs, maybe_outputs, index) ==
    IF maybe_outputs = <<>> THEN [ok |-> TRUE, outputs |-> task_outputs]
    ELSE LET at == SkipFilled(task_outputs, index)
             last == maybe_outputs[Len(maybe_outputs)]
         IN IF at >= Len(task_outputs)
            THEN [ok |-> FALSE, error |-> "output index out of bounds"]
            ELSE SpliceReversed([task_outputs EXCEPT ![at + 1] = Some(last)],
                                SubSeq(maybe_outputs, 1, Len(maybe_outputs) - 1),
                                at)

\* `for output in maybe_outputs { ... }`: each reducer output goes to the
\* first position at or after `index` that holds no output yet.
RECURSIVE Splice(_, _, _)
Splice(task_outputs, maybe_outputs, index) ==
    IF maybe_outputs = <<>> THEN [ok |-> TRUE, outputs |-> task_outputs]
    ELSE LET at == SkipFilled(task_outputs, index)
         IN IF at >= Len(task_outputs)
            THEN [ok |-> FALSE, error |-> "output index out of bounds"]
            ELSE Splice([task_outputs EXCEPT ![at + 1] = Some(Head(maybe_outputs))],
                        Tail(maybe_outputs), at)

Ok(body) == [ok |-> TRUE, body |-> body]

Err(error) == [ok |-> FALSE, error |-> error]

\* The tail of on_request: the length check, the collection of the outputs
\* and the shape of the response.
Finalize(batched_calls, calls_total, task_outputs) ==
    IF calls_total # Len(task_outputs) THEN Err("invalid number of outputs")
    ELSE IF \E i \in 1 .. Len(task_outputs) : task_outputs[i] = None
    THEN Err("not all outputs created")
    ELSE LET collected == [i \in 1 .. Len(task_outputs) |-> task_outputs[i][1]]
         IN IF batched_calls THEN Ok([shape |-> "Batch", outputs |-> collected])
            ELSE IF collected # <<>>
            THEN Ok([shape |-> "Single",
                     outputs |-> <<collected[Len(collected)]>>])
            ELSE Err("output is not defined")

VARIABLES
    latest_blockhash_storage,   \* LatestBlockhashStorage owned by run_update_loop
    slots_info,                 \* BTreeMap<Slot, StreamsSlotInfo>, the recent window
    loop_state,                 \* position of run_update_loop
    streams_rx,                 \* per live broadcast receiver: its unread messages
    rpc_requests,               \* the requests of the batch taken in this turn
    outputs,                    \* the outputs computed for that batch
    ingested,                   \* history: slots of the Slot events processed
    status_applied,             \* history: levels of the Status events that found
                                \* their slot in the blockhash store
    geyser_log,                 \* history: the events processed since the start,
                                \* while they are at most MaxLogged
    pushed_log,                 \* history: the messages sent on geyser_tx
    geyser_rx,                  \* the messages buffered in the ingest channel
    http_tasks,                 \* per on_request call: its position and locals
    requests_rx,                \* the batches buffered in the requests channel
    websockets,                 \* per on_websocket call: its position and locals
    websocket_tx,               \* per connection: the messages fed to its sink
                                \* and whether the sink has failed
    broadcast_log,              \* history: the notices handed to streams_tx.send
    updates_log,                \* history: per connection, the notices its
                                \* updates_rx.recv returned and the filter then
    frames_log,                 \* history: per connection, the frames its
                                \* websocket_rx.next returned
    fee_slot,                   \* a StreamsSlotInfo under query
    fee_call                    \* the last query on fee_slot and its result

\* The history variables are written by the specifications, each recording
\* what its claims speak of; the actions of the program leave them alone.
history_vars == <<ingested, status_applied, geyser_log, pushed_log>>

reducer_vars == <<latest_blockhash_storage, slots_info, loop_state, streams_rx,
                  rpc_requests, outputs>>

fee_vars == <<fee_slot, fee_call>>

mux_vars == <<http_tasks, requests_rx>>

ws_vars == <<websockets, websocket_tx>>

ws_history_vars == <<broadcast_log, updates_log, frames_log>>

conn_vars == <<ws_vars, ws_history_vars>>

ingest_vars == <<geyser_rx>>

vars == <<reducer_vars, mux_vars, conn_vars, ingest_vars, fee_vars, history_vars>>

\* The log after one more event: the events themselves up to MaxLogged of
\* them, a single mark once there were more.
Logged(log, event) ==
    IF log = <<[type |-> "More"]>> \/ Len(log) >= MaxLogged
    THEN <<[type |-> "More"]>>
    ELSE Append(log, event)

\* broadcast::channel(streams_channel_capacity): the number of messages the
\* channel retains (tokio rounds it up to a power of two; 1 and 2 are).
streams_channel_capacity == 1

\* A receiver as Receiver::recv sees the channel: the retained messages it
\* has not read, and whether a message it had not read was overwritten.
Subscribed == [queue |-> <<>>, lagged |-> FALSE]

\* broadcast::Sender::send leaving a receiver that is a whole capacity behind
\* without the new message.
BroadcastSendKeepsOldest(receivers, message) ==
    [r \in DOMAIN receivers |->
        IF Len(receivers[r].queue) >= streams_channel_capacity
        THEN [receivers[r] EXCEPT !.lagged = TRUE]
        ELSE [receivers[r] EXCEPT !.queue = Append(@, message)]]

\* broadcast::Sender::send: every live receiver gets the message, the oldest
\* retained message is overwritten when a receiver is a whole capacity
\* behind; with no receiver the message is dropped and the error is ignored
\* by the caller.
BroadcastSend(receivers, message) ==
    [r \in DOMAIN receivers |->
        IF Len(receivers[r].queue) >= streams_channel_capacity
        THEN [queue |-> Append(Tail(receivers[r].queue), message),
              lagged |-> TRUE]
        ELSE [receivers[r] EXCEPT !.queue = Append(@, message)]]

\* ------------------------------------------------------------------------
\* run_update_loop.
\* ------------------------------------------------------------------------
ReducerInit ==
    /\ latest_blockhash_storage = StorageDefault
    /\ slots_info = <<>>
    /\ loop_state = "running"
    /\ streams_rx = <<>>
    /\ geyser_rx = <<>>
    /\ rpc_requests = None
    /\ outputs = None

\* The Status arm leaving the window's SlotInfo as it was.
GeyserStatusWindowStale(slot, commitment) ==
    LET storage == update_commitment(latest_blockhash_storage, slot, commitment)
    IN /\ loop_state = "running"
       /\ latest_blockhash_storage' = storage
       /\ IF EvictionSpins(storage)
          THEN /\ loop_state' = "spinning"
               /\ UNCHANGED <<slots_info, streams_rx>>
          ELSE /\ loop_state' = "running"
               /\ slots_info' = slots_info
               /\ streams_rx' = BroadcastSend(streams_rx,
                      [type |-> "Status", slot |-> slot, commitment |-> commitment])
       /\ rpc_requests' = None
       /\ outputs' = None

\* geyser_rx yields Some(Some(GeyserMessage::Status { slot, commitment })).
GeyserStatus(slot, commitment) ==
    LET storage == update_commitment(latest_blockhash_storage, slot, commitment)
    IN /\ loop_state = "running"
       /\ latest_blockhash_storage' = storage
       /\ IF EvictionSpins(storage)
          THEN /\ loop_state' = "spinning"
               /\ UNCHANGED <<slots_info, streams_rx>>
          ELSE /\ loop_state' = "running"
               /\ slots_info' =
                      IF slot \in DOMAIN slots_info
                      THEN [slots_info EXCEPT ![slot].commitment = commitment]
                      ELSE slots_info
               /\ streams_rx' = BroadcastSend(streams_rx,
                      [type |-> "Status", slot |-> slot, commitment |-> commitment])
       /\ rpc_requests' = None
       /\ outputs' = None

\* geyser_rx yields Some(Some(GeyserMessage::Slot { slot, hash, height, .. })).
GeyserSlot(slot, hash, height, transactions) ==
    LET info == StreamsSlotInfoNew(slot, hash, height, transactions)
    IN /\ loop_state = "running"
       /\ latest_blockhash_storage' =
              push_block(latest_blockhash_storage, slot, height, hash)
       /\ slots_info' = WindowInsert(slots_info, slot, info)
       /\ streams_rx' = BroadcastSend(streams_rx, [type |-> "Slot", info |-> info])
       /\ rpc_requests' = None
       /\ outputs' = None
       /\ UNCHANGED loop_state

\* geyser_rx yields Some(None) (the shutdown sentinel) or None (closed).
GeyserStop ==
    /\ loop_state = "running"
    /\ loop_state' = "stopped"
    /\ rpc_requests' = None
    /\ outputs' = None
    /\ UNCHANGED <<latest_blockhash_storage, slots_info, streams_rx>>

\* requests_rx yields Some(rpc_requests): `requests` are its sub-requests,
\* `shutdown` the value loaded from its cancellation flag.  `slot -= 1` on
\* slot 0 panics in a build with overflow checks and wraps in one without:
\* both outcomes are steps of the arm.
RequestsArm(requests, shutdown) ==
    LET wrapping == [i \in 1 .. Len(requests) |->
                        HandleRequest(requests[i], latest_blockhash_storage,
                                      slots_info, FALSE)]
        checked == [i \in 1 .. Len(requests) |->
                        HandleRequest(requests[i], latest_blockhash_storage,
                                      slots_info, TRUE)]
    IN /\ loop_state = "running"
       /\ rpc_requests' = Some(requests)
       /\ IF shutdown
          THEN /\ outputs' = None
               /\ UNCHANGED loop_state
          ELSE \/ /\ outputs' = Some(wrapping)
                  /\ UNCHANGED loop_state
               \/ /\ \E i \in 1 .. Len(requests) : checked[i] = Panic
                  /\ outputs' = None
                  /\ loop_state' = "panicked"
       /\ UNCHANGED <<latest_blockhash_storage, slots_info, streams_rx>>

\* ------------------------------------------------------------------------
\* on_request, one call per task.  Between two awaits the function runs
\* without interleaving with the reducer, so it is three steps: up to the
\* select, the branch the select takes, and nothing after it.
\* ------------------------------------------------------------------------
request_calls_max == 2

request_queue_max == 1

Tasks == {"t1"}

TaskIdle ==
    [pc |-> "idle", batched_calls |-> FALSE, calls |-> <<>>, outputs |-> <<>>,
     requests |-> <<>>, shutdown |-> FALSE, response_rx |-> None, result |-> None]

MuxIdle ==
    /\ http_tasks = [t \in Tasks |-> TaskIdle]
    /\ requests_rx = <<>>

\* The requests channel staying open after the update loop has returned.
ReceiverDroppedOnPanic == loop_state = "panicked"

\* The update loop has returned or unwound: requests_rx is dropped, and with
\* it every batch still buffered and its response_tx.
ReceiverDropped == loop_state \in {"stopped", "panicked"}

Return(task, result) == [task EXCEPT !.pc = "returned", !.result = Some(result)]

\* on_request over a requests channel that buffers one batch more than
\* request_queue_max.
OnRequestQueueOffByOne(t, mode, batched_calls, calls) ==
    LET task == [http_tasks[t] EXCEPT !.batched_calls = batched_calls,
                                      !.calls = calls]
        task_outputs == DispatchOutputs(mode, calls)
        requests == DispatchRequests(mode, calls)
        parsed == [task EXCEPT !.outputs = task_outputs, !.requests = requests]
    IN /\ http_tasks[t].pc = "idle"
       /\ batched_calls \/ Len(calls) = 1
       /\ IF Len(calls) > request_calls_max
          THEN /\ http_tasks' = [http_tasks EXCEPT ![t] =
                      Return(task, Err("exceed number of allowed calls in one request"))]
               /\ UNCHANGED requests_rx
          ELSE IF requests = <<>>
          THEN /\ http_tasks' = [http_tasks EXCEPT ![t] =
                      Return(parsed, Finalize(batched_calls, Len(calls), task_outputs))]
               /\ UNCHANGED requests_rx
          ELSE IF ReceiverDropped
          THEN /\ http_tasks' = [http_tasks EXCEPT ![t] =
                      Return(parsed, Err("processed loop is closed"))]
               /\ UNCHANGED requests_rx
          ELSE IF Len(requests_rx) > request_queue_max
          THEN /\ http_tasks' = [http_tasks EXCEPT ![t] =
                      Return(parsed, Err("requests queue is full"))]
               /\ UNCHANGED requests_rx
          ELSE /\ http_tasks' = [http_tasks EXCEPT ![t] =
                      [parsed EXCEPT !.pc = "select"]]
               /\ requests_rx' = Append(requests_rx,
                      [requests |-> requests, response_tx |-> t])
       /\ UNCHANGED <<reducer_vars, conn_vars, ingest_vars, fee_vars, history_vars>>

\* on_request with the ensure on the number of calls letting one call more
\* through.
OnRequestEnsureOffByOne(t, mode, batched_calls, calls) ==
    LET task == [http_tasks[t] EXCEPT !.batched_calls = batched_calls,
                                      !.calls = calls]
        task_outputs == DispatchOutputs(mode, calls)
        requests == DispatchRequests(mode, calls)
        parsed == [task EXCEPT !.outputs = task_outputs, !.requests = requests]
    IN /\ http_tasks[t].pc = "idle"
       /\ batched_calls \/ Len(calls) = 1
       /\ IF Len(calls) > request_calls_max + 1
          THEN /\ http_tasks' = [http_tasks EXCEPT ![t] =
                      Return(task, Err("exceed number of allowed calls in one request"))]
               /\ UNCHANGED requests_rx
          ELSE IF requests = <<>>
          THEN /\ http_tasks' = [http_tasks EXCEPT ![t] =
                      Return(parsed, Finalize(batched_calls, Len(calls), task_outputs))]
               /\ UNCHANGED requests_rx
          ELSE IF ReceiverDropped
          THEN /\ http_tasks' = [http_tasks EXCEPT ![t] =
                      Return(parsed, Err("processed loop is closed"))]
               /\ UNCHANGED requests_rx
          ELSE IF Len(requests_rx) >= request_queue_max
          THEN /\ http_tasks' = [http_tasks EXCEPT ![t] =
                      Return(parsed, Err("requests queue is full"))]
               /\ UNCHANGED requests_rx
          ELSE /\ http_tasks' = [http_tasks EXCEPT ![t] =
                      [parsed EXCEPT !.pc = "select"]]
               /\ requests_rx' = Append(requests_rx,
                      [requests |-> requests, response_tx |-> t])
       /\ UNCHANGED <<reducer_vars, conn_vars, ingest_vars, fee_vars, history_vars>>

\* on_request from its entry to the select, or to its return when it does
\* not get that far.
OnRequest(t, mode, batched_calls, calls) ==
    LET task == [http_tasks[t] EXCEPT !.batched_calls = batched_calls,
                                      !.calls = calls]
        task_outputs == DispatchOutputs(mode, calls)
        requests == DispatchRequests(mode, calls)
        parsed == [task EXCEPT !.outputs = task_outputs, !.requests = requests]
    IN /\ http_tasks[t].pc = "idle"
       /\ batched_calls \/ Len(calls) = 1
       /\ IF Len(calls) > request_calls_max
          THEN /\ http_tasks' = [http_tasks EXCEPT ![t] =
                      Return(task, Err("exceed number of allowed calls in one request"))]
               /\ UNCHANGED requests_rx
          ELSE IF requests = <<>>
          THEN /\ http_tasks' = [http_tasks EXCEPT ![t] =
                      Return(parsed, Finalize(batched_calls, Len(calls), task_outputs))]
               /\ UNCHANGED requests_rx
          ELSE IF ReceiverDropped
          THEN /\ http_tasks' = [http_tasks EXCEPT ![t] =
                      Return(parsed, Err("processed loop is closed"))]
               /\ UNCHANGED requests_rx
          ELSE IF Len(requests_rx) >= request_queue_max
          THEN /\ http_tasks' = [http_tasks EXCEPT ![t] =
                      Return(parsed, Err("requests queue is full"))]
               /\ UNCHANGED requests_rx
          ELSE /\ http_tasks' = [http_tasks EXCEPT ![t] =
                      [parsed EXCEPT !.pc = "select"]]
               /\ requests_rx' = Append(requests_rx,
                      [requests |-> requests, response_tx |-> t])
       /\ UNCHANGED <<reducer_vars, conn_vars, ingest_vars, fee_vars, history_vars>>

\* select: shutdown_rx.recv() yields Closed.
SelectShutdown(t) ==
    /\ http_tasks[t].pc = "select"
    /\ http_tasks' = [http_tasks EXCEPT ![t] =
           Return([http_tasks[t] EXCEPT !.shutdown = TRUE], Err("connection closed"))]
    /\ UNCHANGED <<requests_rx, reducer_vars, conn_vars, ingest_vars, fee_vars, history_vars>>

\* select: sleep(request_timeout) elapses and the flag is left as it is.
SelectTimeoutFlagUnset(t) ==
    /\ http_tasks[t].pc = "select"
    /\ http_tasks' = [http_tasks EXCEPT ![t] =
           Return(http_tasks[t], Err("request timeout"))]
    /\ UNCHANGED <<requests_rx, reducer_vars, conn_vars, ingest_vars, fee_vars, history_vars>>

\* select: sleep(request_timeout) elapses.
SelectTimeout(t) ==
    /\ http_tasks[t].pc = "select"
    /\ http_tasks' = [http_tasks EXCEPT ![t] =
           Return([http_tasks[t] EXCEPT !.shutdown = TRUE], Err("request timeout"))]
    /\ UNCHANGED <<requests_rx, reducer_vars, conn_vars, ingest_vars, fee_vars, history_vars>>

\* select: response_rx resolves, with the reducer's outputs or with the
\* error of a dropped response_tx.
SelectResponse(t) ==
    LET task == http_tasks[t]
        spliced == Splice(task.outputs, task.response_rx[1], 0)
    IN /\ task.pc = "select"
       /\ IF task.response_rx # None
          THEN http_tasks' = [http_tasks EXCEPT ![t] =
                   IF spliced.ok
                   THEN Return([task EXCEPT !.outputs = spliced.outputs],
                               Finalize(task.batched_calls, Len(task.calls),
                                        spliced.outputs))
                   ELSE Return(task, Err(spliced.error))]
          ELSE /\ ReceiverDropped
               /\ http_tasks' = [http_tasks EXCEPT ![t] =
                      Return(task, Err("request dropped"))]
       /\ UNCHANGED <<requests_rx, reducer_vars, conn_vars, ingest_vars, fee_vars, history_vars>>

\* The requests arm of the update loop taking the oldest buffered batch; the
\* outputs go to response_tx, whose send fails silently once the task has
\* returned.
RecvBatch ==
    /\ requests_rx # <<>>
    /\ LET batch == Head(requests_rx)
           t == batch.response_tx
       IN /\ RequestsArm(batch.requests, http_tasks[t].shutdown)
          /\ http_tasks' =
                 IF outputs' # None /\ http_tasks[t].pc = "select"
                 THEN [http_tasks EXCEPT ![t].response_rx = outputs']
                 ELSE http_tasks
    /\ requests_rx' = Tail(requests_rx)
    /\ UNCHANGED <<conn_vars, ingest_vars, fee_vars, history_vars>>

\* ------------------------------------------------------------------------
\* The ingest channel and the select of run_update_loop over its two
\* channels.  A message of the ingest channel is None (the shutdown
\* sentinel) or Some of a Status or Slot event.
\* ------------------------------------------------------------------------
\* push_geyser_message: geyser_tx.send(Some(message)) fails once the update
\* loop has returned, and then the message is lost with an error.
PushGeyserMessage(message) ==
    geyser_rx' = IF ReceiverDropped THEN geyser_rx
                 ELSE Append(geyser_rx, Some(message))

\* shutdown: geyser_tx.send(None)
Shutdown ==
    geyser_rx' = IF ReceiverDropped THEN geyser_rx ELSE Append(geyser_rx, None)

\* The arm of geyser_rx.recv() on the message it yields.
GeyserArm(maybe_message) ==
    IF maybe_message = None THEN GeyserStop
    ELSE LET message == maybe_message[1]
         IN IF message.type = "Status"
            THEN GeyserStatus(message.slot, message.commitment)
            ELSE GeyserSlot(message.slot, message.hash, message.height,
                            message.transactions)

\* select without `biased`: the requests arm can be taken while an ingest
\* message is buffered.
RequestsArmReadyUnbiased == requests_rx # <<>>

\* select! { biased; .. }: the branches are polled in their order, so
\* geyser_rx.recv() is taken whenever a message is buffered, and
\* requests_rx.recv() only when none is.
GeyserArmReady == geyser_rx # <<>>

RequestsArmReady == geyser_rx = <<>> /\ requests_rx # <<>>

\* ------------------------------------------------------------------------
\* on_websocket, one call per connection.  The function holds a clone of
\* streams_tx for as long as it runs, so its updates_rx.recv never reports
\* RecvError::Closed.  One turn of its loop is two steps: the feed of the
\* pending message, when there is one, and the branch the select takes.
\* ------------------------------------------------------------------------
Connections == {"w1"}

\* `only max 5 percentile levels are allowed`
MaxLevels == 5

Text(output) == [type |-> "Text", output |-> output]

Pong == [type |-> "Pong"]

\* WebSocketMessage::Close with the frame built from the close reason.
Close(maybe_close_reason) ==
    [type |-> "Close",
     frame |-> IF maybe_close_reason = None THEN None
               ELSE Some([code |-> "Error", reason |-> maybe_close_reason[1]])]

\* The acknowledgement of SlotsSubscribe.
Subscribed_ack == [type |-> "subscribed"]

\* Pubkey::from_str on the keys of a config: the keys of the model are the
\* numbers of Pubkeys, every other string fails to parse.
ParsesAsPubkey(pubkey) == pubkey \in {1, 2}

\* try_from without the test of the levels against 10000.
SlotSubscribeFilterTryFromAnyLevel(config) ==
    LET unparsed == [i \in 1 .. Len(config.read_write \o config.read_only) |->
                        (config.read_write \o config.read_only)[i]]
        bad == {i \in 1 .. Len(unparsed) : ~ParsesAsPubkey(unparsed[i])}
    IN IF bad # {}
       THEN Err(InvalidParams("failed to parse pubkey"))
       ELSE IF Len(config.read_write) + Len(config.read_only) > MAX_TX_ACCOUNT_LOCKS
       THEN Err(InvalidParams("read_write and read_only should contain less accounts"))
       ELSE IF Len(config.levels) > MaxLevels
       THEN Err(InvalidParams("only max 5 percentile levels are allowed"))
       ELSE Ok([read_write |-> config.read_write,
                read_only |-> config.read_only,
                levels |-> config.levels])

\* SlotSubscribeFilter::try_from
SlotSubscribeFilterTryFrom(config) ==
    LET unparsed == [i \in 1 .. Len(config.read_write \o config.read_only) |->
                        (config.read_write \o config.read_only)[i]]
        bad == {i \in 1 .. Len(unparsed) : ~ParsesAsPubkey(unparsed[i])}
    IN IF bad # {}
       THEN Err(InvalidParams("failed to parse pubkey"))
       ELSE IF Len(config.read_write) + Len(config.read_only) > MAX_TX_ACCOUNT_LOCKS
       THEN Err(InvalidParams("read_write and read_only should contain less accounts"))
       ELSE IF Len(config.levels) > MaxLevels
       THEN Err(InvalidParams("only max 5 percentile levels are allowed"))
       ELSE IF \E i \in 1 .. Len(config.levels) : config.levels[i] > 10000
       THEN Err(InvalidParams("percentile level is too big; max value is 10000"))
       ELSE Ok([read_write |-> config.read_write,
                read_only |-> config.read_only,
                levels |-> config.levels])

WebsocketIdle ==
    [pc |-> "idle", filter |-> None, websocket_tx_message |-> None,
     flush_required |-> FALSE, loop_close_reason |-> None, websocket_rx |-> 0]

WsIdle ==
    /\ websockets = [c \in Connections |-> WebsocketIdle]
    /\ websocket_tx = [c \in Connections |-> [fed |-> <<>>, failed |-> FALSE]]
    /\ broadcast_log = <<>>
    /\ updates_log = [c \in Connections |-> <<>>]
    /\ frames_log = [c \in Connections |-> <<>>]

\* `break loop_close_reason` and the statements after the loop: the close
\* frame is fed when there is a reason (`feed_ok` is whether the sink took
\* it; the result is ignored), then the function returns and drops updates_rx.
Break(c, task, loop_close_reason, feed_ok) ==
    /\ websockets' = [websockets EXCEPT ![c] =
           [task EXCEPT !.pc = "returned",
                        !.loop_close_reason = loop_close_reason]]
    /\ websocket_tx' =
           IF loop_close_reason = None THEN websocket_tx
           ELSE IF feed_ok
           THEN [websocket_tx EXCEPT ![c].fed = Append(@, Close(loop_close_reason[1]))]
           ELSE [websocket_tx EXCEPT ![c].failed = TRUE]
    /\ streams_rx' = [r \in DOMAIN streams_rx \ {c} |-> streams_rx[r]]

\* feed or flush fails in the loop: `break None`, no close frame is fed.
SinkFailed(c, task) ==
    /\ websockets' = [websockets EXCEPT ![c] = [task EXCEPT !.pc = "returned"]]
    /\ websocket_tx' = [websocket_tx EXCEPT ![c].failed = TRUE]
    /\ streams_rx' = [r \in DOMAIN streams_rx \ {c} |-> streams_rx[r]]

\* websocket.await fails: the function returns before it subscribes.
WsUpgradeFailed(c) ==
    /\ websockets[c].pc = "idle"
    /\ websockets' = [websockets EXCEPT ![c].pc = "returned"]
    /\ UNCHANGED <<websocket_tx, streams_rx>>

\* websocket.await succeeds; self.streams_tx.subscribe().
WsAccept(c) ==
    /\ websockets[c].pc = "idle"
    /\ websockets' = [websockets EXCEPT ![c].pc = "loop"]
    /\ streams_rx' = [r \in DOMAIN streams_rx \cup {c} |->
                         IF r = c THEN Subscribed ELSE streams_rx[r]]
    /\ UNCHANGED websocket_tx

\* The top of the loop with a pending message: websocket_tx.feed(message).
WsFeed(c, feed_ok) ==
    LET task == websockets[c]
        taken == [task EXCEPT !.websocket_tx_message = None]
    IN /\ task.pc = "loop"
       /\ task.websocket_tx_message # None
       /\ IF feed_ok
          THEN /\ websocket_tx' = [websocket_tx EXCEPT ![c].fed =
                      Append(@, task.websocket_tx_message[1])]
               /\ websockets' = [websockets EXCEPT ![c] =
                      [taken EXCEPT !.flush_required = TRUE]]
               /\ UNCHANGED streams_rx
          ELSE SinkFailed(c, taken)

\* select: websocket_tx.flush() completes.
WsFlush(c, flush_ok) ==
    LET task == websockets[c]
    IN /\ task.pc = "loop"
       /\ task.websocket_tx_message = None
       /\ task.flush_required
       /\ IF flush_ok
          THEN /\ websockets' = [websockets EXCEPT ![c].flush_required = FALSE]
               /\ UNCHANGED <<websocket_tx, streams_rx>>
          ELSE SinkFailed(c, task)

\* WsInbound with SlotsSubscribe setting the filter only while there is none:
\* a later valid call is acknowledged and the first filter stays.
WsInboundKeepsFilter(c, frame, feed_ok) ==
    LET task == [websockets[c] EXCEPT !.websocket_rx = @ + 1]
        Pending(message) ==
            /\ websockets' = [websockets EXCEPT ![c] =
                   [task EXCEPT !.websocket_tx_message = Some(message)]]
            /\ UNCHANGED <<websocket_tx, streams_rx>>
    IN /\ websockets[c].pc = "loop"
       /\ websockets[c].websocket_tx_message = None
       /\ CASE frame.kind = "Ping" -> Pending(Pong)
            [] frame.kind = "Pong" ->
                   /\ websockets' = [websockets EXCEPT ![c] = task]
                   /\ UNCHANGED <<websocket_tx, streams_rx>>
            [] frame.kind = "Close" -> Break(c, task, None, feed_ok)
            [] frame.kind = "InvalidBinary" ->
                   Break(c, task, Some(Some("received invalid binary message")), feed_ok)
            [] frame.kind = "Unsupported" ->
                   Break(c, task, Some(Some("received unsupported message")), feed_ok)
            [] frame.kind = "InvalidMessage" ->
                   Break(c, task, Some(Some("received invalid message")), feed_ok)
            [] frame.kind = "MethodCall" /\ frame.method # "SlotsSubscribe" ->
                   Break(c, task, Some(Some("unknown subscription method")), feed_ok)
            [] frame.kind = "MethodCall" /\ frame.method = "SlotsSubscribe" ->
                   LET parsed == IF frame.params.parses
                                 THEN SlotSubscribeFilterTryFrom(frame.params.config)
                                 ELSE Err(InvalidParams("parse"))
                   IN IF parsed.ok
                      THEN /\ websockets' = [websockets EXCEPT ![c] =
                                  [task EXCEPT
                                      !.filter =
                                          IF @ = None
                                          THEN Some([id |-> frame.id,
                                                     filter |-> parsed.body])
                                          ELSE @,
                                      !.websocket_tx_message =
                                          Some(Text(Success(frame.id, Subscribed_ack)))]]
                           /\ UNCHANGED <<websocket_tx, streams_rx>>
                      ELSE Pending(Text(Failure(frame.id, parsed.error)))

\* select: websocket_rx.next() yields `frame`.
WsInbound(c, frame, feed_ok) ==
    LET task == [websockets[c] EXCEPT !.websocket_rx = @ + 1]
        Pending(message) ==
            /\ websockets' = [websockets EXCEPT ![c] =
                   [task EXCEPT !.websocket_tx_message = Some(message)]]
            /\ UNCHANGED <<websocket_tx, streams_rx>>
    IN /\ websockets[c].pc = "loop"
       /\ websockets[c].websocket_tx_message = None
       /\ CASE frame.kind = "Ping" -> Pending(Pong)
            [] frame.kind = "Pong" ->
                   /\ websockets' = [websockets EXCEPT ![c] = task]
                   /\ UNCHANGED <<websocket_tx, streams_rx>>
            [] frame.kind = "Close" -> Break(c, task, None, feed_ok)
            [] frame.kind = "InvalidBinary" ->
                   Break(c, task, Some(Some("received invalid binary message")), feed_ok)
            [] frame.kind = "Unsupported" ->
                   Break(c, task, Some(Some("received unsupported message")), feed_ok)
            [] frame.kind = "InvalidMessage" ->
                   Break(c, task, Some(Some("received invalid message")), feed_ok)
            [] frame.kind = "MethodCall" /\ frame.method # "SlotsSubscribe" ->
                   Break(c, task, Some(Some("unknown subscription method")), feed_ok)
            [] frame.kind = "MethodCall" /\ frame.method = "SlotsSubscribe" ->
                   LET parsed == IF frame.params.parses
                                 THEN SlotSubscribeFilterTryFrom(frame.params.config)
                                 ELSE Err(InvalidParams("parse"))
                   IN IF parsed.ok
                      THEN /\ websockets' = [websockets EXCEPT ![c] =
                                  [task EXCEPT
                                      !.filter = Some([id |-> frame.id,
                                                       filter |-> parsed.body]),
                                      !.websocket_tx_message =
                                          Some(Text(Success(frame.id, Subscribed_ack)))]]
                           /\ UNCHANGED <<websocket_tx, streams_rx>>
                      ELSE Pending(Text(Failure(frame.id, parsed.error)))

\* The output of an update with a Status push for every commitment.
UpdateOutputEveryLevel(update, filter) ==
    IF update.type = "Status"
    THEN Some([type |-> "Status", slot |-> update.slot,
               commitment |-> update.commitment])
    ELSE Some(get_filtered(update.info, filter))

\* The output of an update under the filter; None for a Status at Processed.
UpdateOutput(update, filter) ==
    IF update.type = "Status"
    THEN IF update.commitment = "Processed" THEN None
         ELSE Some([type |-> "Status", slot |-> update.slot,
                    commitment |-> update.commitment])
    ELSE Some(get_filtered(update.info, filter))

\* updates_rx.recv() polled while a message still waits in the pending slot.
WsUpdateOverwrites(c, feed_ok) ==
    LET task == websockets[c]
        update == Head(streams_rx[c].queue)
        output == UpdateOutput(update, task.filter[1].filter)
    IN /\ task.pc = "loop"
       /\ streams_rx[c].lagged \/ streams_rx[c].queue # <<>>
       /\ IF streams_rx[c].lagged
          THEN Break(c, task, Some(Some("subscription lagged")), feed_ok)
          ELSE /\ streams_rx' = [streams_rx EXCEPT ![c].queue = Tail(@)]
               /\ websockets' =
                      IF task.filter # None /\ output # None
                      THEN [websockets EXCEPT ![c].websocket_tx_message =
                               Some(Text(Success(task.filter[1].id, output[1])))]
                      ELSE websockets
               /\ UNCHANGED websocket_tx

\* updates_rx.recv() whose RecvError::Lagged is skipped: the loop goes on
\* with the oldest update retained.
WsUpdateLagSkipped(c, feed_ok) ==
    LET task == websockets[c]
        update == Head(streams_rx[c].queue)
        output == UpdateOutput(update, task.filter[1].filter)
    IN /\ task.pc = "loop"
       /\ task.websocket_tx_message = None
       /\ streams_rx[c].lagged \/ streams_rx[c].queue # <<>>
       /\ IF streams_rx[c].lagged
          THEN /\ streams_rx' = [streams_rx EXCEPT ![c].lagged = FALSE]
               /\ UNCHANGED <<websockets, websocket_tx>>
          ELSE /\ streams_rx' = [streams_rx EXCEPT ![c].queue = Tail(@)]
               /\ websockets' =
                      IF task.filter # None /\ output # None
                      THEN [websockets EXCEPT ![c].websocket_tx_message =
                               Some(Text(Success(task.filter[1].id, output[1])))]
                      ELSE websockets
               /\ UNCHANGED websocket_tx

\* updates_rx.recv() pushing a Status notice also while no filter is active,
\* under the null id.
WsUpdateUnfiltered(c, feed_ok) ==
    LET task == websockets[c]
        update == Head(streams_rx[c].queue)
        output == IF task.filter = None
                  THEN IF update.type = "Status"
                       THEN UpdateOutput(update, None)
                       ELSE None
                  ELSE UpdateOutput(update, task.filter[1].filter)
        id == IF task.filter = None THEN NullId ELSE task.filter[1].id
    IN /\ task.pc = "loop"
       /\ task.websocket_tx_message = None
       /\ streams_rx[c].lagged \/ streams_rx[c].queue # <<>>
       /\ IF streams_rx[c].lagged
          THEN Break(c, task, Some(Some("subscription lagged")), feed_ok)
          ELSE /\ streams_rx' = [streams_rx EXCEPT ![c].queue = Tail(@)]
               /\ websockets' =
                      IF output # None
                      THEN [websockets EXCEPT ![c].websocket_tx_message =
                               Some(Text(Success(id, output[1])))]
                      ELSE websockets
               /\ UNCHANGED websocket_tx

\* select: updates_rx.recv() completes, with the oldest unread update or
\* with RecvError::Lagged.
WsUpdate(c, feed_ok) ==
    LET task == websockets[c]
        update == Head(streams_rx[c].queue)
        output == UpdateOutput(update, task.filter[1].filter)
    IN /\ task.pc = "loop"
       /\ task.websocket_tx_message = None
       /\ streams_rx[c].lagged \/ streams_rx[c].queue # <<>>
       /\ IF streams_rx[c].lagged
          THEN Break(c, task, Some(Some("subscription lagged")), feed_ok)
          ELSE /\ streams_rx' = [streams_rx EXCEPT ![c].queue = Tail(@)]
               /\ websockets' =
                      IF task.filter # None /\ output # None
                      THEN [websockets EXCEPT ![c].websocket_tx_message =
                               Some(Text(Success(task.filter[1].id, output[1])))]
                      ELSE websockets
               /\ UNCHANGED websocket_tx

\* ------------------------------------------------------------------------
\* Spec: the reducer fed directly by its two channels.  A message received
\* from a channel is an input of the arm that handles it.
\* ------------------------------------------------------------------------
Pubkeys == {1, 2}

Tx(vote, fee, unit_price, writable, readable) ==
    [vote |-> vote, fee |-> fee, unit_price |-> unit_price,
     units_consumed |-> None, writable |-> writable, readable |-> readable]

\* The transaction lists of the Slot events of Spec.
SlotTransactions == {<<>>}

RequestIds == {1}

MinContextSlots == {None}

LatestBlockhashRequests ==
    {[method |-> "LatestBlockhash", id |-> i, commitment |-> c,
      rollback |-> r, min_context_slot |-> m]
        : i \in RequestIds, c \in Commitments,
          r \in 0 .. MAX_RECENT_BLOCKHASHES + 1, m \in MinContextSlots}

SlotRequests ==
    {[method |-> "Slot", id |-> i, commitment |-> c, min_context_slot |-> m]
        : i \in RequestIds, c \in Commitments, m \in MinContextSlots}

RecentPrioritizationFeesRequests ==
    {[method |-> "RecentPrioritizationFees", id |-> i, pubkeys |-> k,
      percentile |-> p]
        : i \in RequestIds, k \in {<<>>}, p \in {None}}

Requests ==
    LatestBlockhashRequests \cup SlotRequests \cup RecentPrioritizationFeesRequests

\* No slot info is under query in the specifications of the reducer.
FeeIdle ==
    /\ fee_slot = StreamsSlotInfoNew(0, "H1", 1, <<>>)
    /\ fee_call = None

HistoryInit ==
    /\ ingested = {}
    /\ status_applied = {}
    /\ geyser_log = <<>>
    /\ pushed_log = <<>>

Init ==
    /\ ReducerInit
    /\ MuxIdle
    /\ WsIdle
    /\ FeeIdle
    /\ HistoryInit

RecvStatus ==
    /\ \E slot \in SlotIds, commitment \in Commitments :
           GeyserStatus(slot, commitment)
    /\ UNCHANGED <<mux_vars, conn_vars, ingest_vars, fee_vars, history_vars>>

RecvSlot ==
    /\ \E slot \in SlotIds, transactions \in SlotTransactions :
           /\ GeyserSlot(slot, "H1", 1, transactions)
           /\ ingested' = ingested \cup {slot}
    /\ UNCHANGED <<mux_vars, conn_vars, ingest_vars, fee_vars, status_applied, geyser_log,
                 pushed_log>>

RecvStop ==
    /\ GeyserStop
    /\ UNCHANGED <<mux_vars, conn_vars, ingest_vars, fee_vars, history_vars>>

RecvRequests ==
    /\ \E request \in Requests : RequestsArm(<<request>>, FALSE)
    /\ UNCHANGED <<mux_vars, conn_vars, ingest_vars, fee_vars, history_vars>>

Next ==
    \/ RecvStatus
    \/ RecvSlot
    \/ RecvStop
    \/ RecvRequests

Spec == Init /\ [][Next]_vars

\* The reducer fed by the ingest channel alone; the levels of the Status
\* events that find their slot in the blockhash store are recorded.
IngestStatus ==
    /\ \E slot \in SlotIds, commitment \in Commitments :
           /\ GeyserStatus(slot, commitment)
           /\ status_applied' =
                  IF slot \in DOMAIN latest_blockhash_storage.slots
                  THEN status_applied \cup {commitment} ELSE status_applied
    /\ UNCHANGED <<mux_vars, conn_vars, ingest_vars, fee_vars, ingested, geyser_log,
                 pushed_log>>

NextIngest ==
    \/ IngestStatus
    \/ RecvSlot
    \/ RecvStop

SpecIngest == Init /\ [][NextIngest]_vars

\* ------------------------------------------------------------------------
\* SpecMux: on_request calls against the reducer.  The ingest channel carries
\* the Slot events of one slot and its Finalized status.
\* ------------------------------------------------------------------------
MuxSlot == 1

DefaultParams == Params(TRUE, TRUE, None, 0, None, <<>>, None)

MalformedParams == Params(FALSE, FALSE, None, 0, None, <<>>, None)

RollbackParams == Params(TRUE, FALSE, Some("Processed"), 1, None, <<>>, None)

MethodCall(id, method, params) ==
    [kind |-> "MethodCall", id |-> id, method |-> method, params |-> params]

\* The calls of the requests: every kind answered locally and every kind
\* answered by the reducer, under two ids.
Calls ==
    {[kind |-> "Notification"],
     [kind |-> "Invalid", id |-> 1],
     MethodCall(2, "getVersion", DefaultParams),
     MethodCall(1, "getHealth", DefaultParams),
     MethodCall(2, "getLatestBlockhash", MalformedParams),
     MethodCall(1, "getLatestBlockhash", DefaultParams),
     MethodCall(2, "getLatestBlockhash", RollbackParams),
     MethodCall(2, "getSlot", DefaultParams),
     MethodCall(1, "getRecentPrioritizationFees", DefaultParams)}

\* The blocks of the Slot events.
MuxBlocks == {[hash |-> "H1", height |-> 1], [hash |-> "H2", height |-> 2]}

\* Batches of one call more than request_calls_max.
OversizeBatches ==
    {[i \in 1 .. request_calls_max + 1 |-> call] : call \in Calls}

MuxRecvStatus ==
    /\ GeyserStatus(MuxSlot, "Finalized")
    /\ geyser_log' = Logged(geyser_log,
           [type |-> "Status", slot |-> MuxSlot, commitment |-> "Finalized"])
    /\ UNCHANGED <<mux_vars, conn_vars, ingest_vars, fee_vars, ingested, status_applied,
                 pushed_log>>

MuxRecvSlot ==
    /\ \E block \in MuxBlocks :
           /\ GeyserSlot(MuxSlot, block.hash, block.height, <<>>)
           /\ geyser_log' = Logged(geyser_log,
                  [type |-> "Slot", slot |-> MuxSlot, hash |-> block.hash,
                   height |-> block.height])
    /\ UNCHANGED <<mux_vars, conn_vars, ingest_vars, fee_vars, ingested, status_applied,
                 pushed_log>>

HttpRequest ==
    \E t \in Tasks :
        /\ http_tasks[t].pc = "idle"
        /\ \E mode \in {"Solana", "Triton"}, batched_calls \in BOOLEAN,
              calls \in SeqsUpTo(Calls, request_calls_max) \cup OversizeBatches :
               OnRequest(t, mode, batched_calls, calls)

HttpSelect ==
    \E t \in Tasks :
        \/ SelectShutdown(t)
        \/ SelectTimeout(t)
        \/ SelectResponse(t)

NextMux ==
    \/ MuxRecvStatus
    \/ MuxRecvSlot
    \/ RecvStop
    \/ HttpRequest
    \/ HttpSelect
    \/ RecvBatch

SpecMux == Init /\ [][NextMux]_vars

\* ------------------------------------------------------------------------
\* SpecFees: the queries of one slot info.  Init draws the transactions of
\* the slot; a step applies one query to the slot info built from them.  The
\* queries are pure, so one query per behaviour reaches every result.
\* ------------------------------------------------------------------------
MaxTransactions == 2

UnitPrices == {1, 2}

RECURSIVE Ascending(_)
Ascending(S) == IF S = {} THEN <<>> ELSE <<Min(S)>> \o Ascending(S \ {Min(S)})

\* The account lists of a transaction: ascending, without repetition.
AccountLists == {Ascending(S) : S \in SUBSET Pubkeys}

FeeTransactions ==
    {Tx(vote, unit_price + 2, unit_price, writable, readable)
        : vote \in BOOLEAN, unit_price \in UnitPrices,
          writable \in AccountLists, readable \in {<<>>, <<1>>}}

FeePercentiles == {0, 3333, 3334, 4999, 5000, 6666, 6667, 9999, 10000}

FeeAccountKeys == SeqsUpTo(Pubkeys, 2)

FeeFilters ==
    {[read_write |-> rw, read_only |-> ro, levels |-> levels]
        : rw \in AccountLists \cup {<<2, 1>>}, ro \in {<<>>, <<1>>},
          levels \in {<<>>, <<5000, 10000>>}}

InitFees ==
    /\ ReducerInit
    /\ MuxIdle
    /\ WsIdle
    /\ HistoryInit
    /\ \E transactions \in SeqsUpTo(FeeTransactions, MaxTransactions) :
           fee_slot = StreamsSlotInfoNew(0, "H1", 1, transactions)
    /\ fee_call = None

CallGetPercentile ==
    /\ fee_call = None
    /\ \E percentile \in FeePercentiles :
           fee_call' = Some([op |-> "get_percentile",
                             fees |-> fee_slot.fees.transaction_fees,
                             percentile |-> percentile,
                             result |-> get_percentile(
                                 fee_slot.fees.transaction_fees, percentile)])
    /\ UNCHANGED <<reducer_vars, mux_vars, conn_vars, ingest_vars, fee_slot, history_vars>>

CallGetFee ==
    /\ fee_call = None
    /\ \E account_keys \in FeeAccountKeys,
          percentile \in {None, Some(0), Some(5000), Some(10000)} :
           fee_call' = Some([op |-> "get_fee",
                             account_keys |-> account_keys,
                             percentile |-> percentile,
                             result |-> get_fee(fee_slot.fees, account_keys,
                                                percentile)])
    /\ UNCHANGED <<reducer_vars, mux_vars, conn_vars, ingest_vars, fee_slot, history_vars>>

CallGetFiltered ==
    /\ fee_call = None
    /\ \E filter \in FeeFilters :
           fee_call' = Some([op |-> "get_filtered",
                             filter |-> filter,
                             result |-> get_filtered(fee_slot, filter)])
    /\ UNCHANGED <<reducer_vars, mux_vars, conn_vars, ingest_vars, fee_slot, history_vars>>

NextFees ==
    \/ CallGetPercentile
    \/ CallGetFee
    \/ CallGetFiltered

SpecFees == InitFees /\ [][NextFees]_vars

\* ------------------------------------------------------------------------
\* Claims checked under Spec.
\* ------------------------------------------------------------------------
\* The n largest elements of S (all of S when it has fewer).
LargestOf(S, n) == {x \in S : Cardinality({y \in S : y > x}) < n}

\* C1: after any sequence of Slot and Status events the recent-slots window
\* holds at most MAX_NUM_RECENT_SLOT_INFO slots and holds exactly the
\* min(MAX_NUM_RECENT_SLOT_INFO, n) largest of the n distinct slots ingested.
C1_WindowHoldsLargest ==
    /\ Cardinality(DOMAIN slots_info) <= MAX_NUM_RECENT_SLOT_INFO
    /\ DOMAIN slots_info = LargestOf(ingested, MAX_NUM_RECENT_SLOT_INFO)

\* What the eviction loop of the code keeps: one slot less than the constant.
WindowHoldsOneLess ==
    DOMAIN slots_info = LargestOf(ingested, MAX_NUM_RECENT_SLOT_INFO - 1)

\* The slots of the store whose current commitment is `commitment`.
AtCommitment(storage, commitment) ==
    {s \in DOMAIN storage.slots : storage.slots[s].commitment = commitment}

\* The k-th largest element of S, k in 1 .. Cardinality(S).
NthMostRecent(S, k) == CHOOSE x \in S : Cardinality({y \in S : y > x}) = k - 1

\* The LatestBlockhash request served alone in this turn, if any.
ServedLatestBlockhash(request) ==
    /\ rpc_requests = Some(<<request>>)
    /\ request.method = "LatestBlockhash"

\* C2: for any commitment C and rollback r <= MAX_RECENT_BLOCKHASHES such
\* that the store holds at least r+1 slots whose current commitment is C, a
\* LatestBlockhash request (C, r, no min_context_slot) succeeds with the slot
\* and hash of the (r+1)-th most recent slot at commitment C, also when the
\* slot numbers of the store are not contiguous.
C2_RollbackReturnsNthMostRecent ==
    \A request \in LatestBlockhashRequests :
        LET at == AtCommitment(latest_blockhash_storage, request.commitment)
            target == NthMostRecent(at, request.rollback + 1)
        IN (/\ ServedLatestBlockhash(request)
            /\ request.min_context_slot = None
            /\ request.rollback <= MAX_RECENT_BLOCKHASHES
            /\ Cardinality(at) >= request.rollback + 1)
           => outputs = Some(<<Success(request.id,
                  [context_slot |-> target,
                   blockhash |-> latest_blockhash_storage.slots[target].hash,
                   last_valid_block_height |->
                       latest_blockhash_storage.slots[target].height
                           + MAX_RECENT_BLOCKHASHES])>>)

\* The slot numbers a successful output names.
NamedSlots(request, output) ==
    IF ~output.ok THEN {}
    ELSE CASE request.method = "Slot" -> {output.result}
           [] request.method = "LatestBlockhash" -> {output.result.context_slot}
           [] request.method = "RecentPrioritizationFees" ->
                  {output.result[i].slot : i \in 1 .. Len(output.result)}

\* C3: under any interleaving of ingest events and request batches, every
\* successful getSlot, getLatestBlockhash and getRecentPrioritizationFees
\* output names only slots for which a Slot event has been processed, also
\* when the batch is served before any Slot or Status event.
C3_ResponsesNameIngestedSlots ==
    outputs # None =>
        \A i \in 1 .. Len(outputs[1]) :
            NamedSlots(rpc_requests[1][i], outputs[1][i]) \subseteq ingested

\* The three cached latest slots.
CachedLatest(storage) ==
    <<storage.slot_processed, storage.slot_confirmed, storage.slot_finalized>>

\* C8 as stated: once a Status of a level has been applied, the cached latest
\* slot of that level is the number of an entry that is in the map and whose
\* current commitment is that level.
C8_CachedLatestNamesEntryAtLevel ==
    \A c \in status_applied :
        LET slot == LatestSlot(latest_blockhash_storage, c)
        IN /\ slot \in DOMAIN latest_blockhash_storage.slots
           /\ latest_blockhash_storage.slots[slot].commitment = c

\* A Status { slot, commitment } step that finds its slot in the store.
StatusOnPresent(slot, commitment) ==
    /\ slot \in DOMAIN latest_blockhash_storage.slots
    /\ GeyserStatus(slot, commitment)

\* A step that takes a batch from requests_rx: every other step of the loop
\* leaves rpc_requests empty.
ServesBatch == rpc_requests' # None

\* C8 amended: each cached latest slot is 0 or the number of an ingested slot.
\* A Status { s, L } that finds s in the map sets the cached latest slot of L
\* to s (for Processed: to the larger of s and the old value), leaves the
\* other two alone and, unless the eviction of that call removed s, leaves
\* the entry of s at commitment L; no other step changes a cached latest
\* slot, so later steps may move the named entry to another commitment or
\* remove it.
C8_CachedLatestFollowsStatus ==
    /\ [](\A c \in Commitments :
             LatestSlot(latest_blockhash_storage, c) \in ingested \cup {0})
    /\ [][ServesBatch \/
             \A s \in SlotIds, c \in Commitments :
                 StatusOnPresent(s, c) =>
                     /\ LatestSlot(latest_blockhash_storage', c) =
                            IF c = "Processed"
                               /\ s <= latest_blockhash_storage.slot_processed
                            THEN latest_blockhash_storage.slot_processed
                            ELSE s
                     /\ \A d \in Commitments \ {c} :
                            LatestSlot(latest_blockhash_storage', d) =
                                LatestSlot(latest_blockhash_storage, d)
                     /\ s \in DOMAIN latest_blockhash_storage'.slots =>
                            latest_blockhash_storage'.slots[s].commitment = c]_vars
    /\ [][\/ CachedLatest(latest_blockhash_storage') =
                 CachedLatest(latest_blockhash_storage)
          \/ \E s \in SlotIds, c \in Commitments : StatusOnPresent(s, c)]_vars

\* C8 witness: Confirmed was applied and the cached latest confirmed slot
\* names an entry that a later Status has moved to Finalized.
C8_Witness ==
    /\ "Confirmed" \in status_applied
    /\ latest_blockhash_storage.slot_confirmed
           \in DOMAIN latest_blockhash_storage.slots
    /\ latest_blockhash_storage.slots[latest_blockhash_storage.slot_confirmed]
           .commitment = "Finalized"

\* The entries that a walk from `start` passes before it meets an absent slot
\* number (below 0 the walk wraps to the top of the slot type, which no
\* event of the model fills) and that are at `commitment`.
MatchesBeforeAbsent(storage, start, commitment) ==
    LET absent == {s \in 0 .. start - 1 : s \notin DOMAIN storage.slots}
        floor == IF absent = {} THEN -1 ELSE Max(absent)
    IN {s \in AtCommitment(storage, commitment) : floor < s /\ s < start}

\* A LatestBlockhash request was served alone, passed the guards before the
\* walk, and its walk met an absent slot number before its rollback was done.
WalkRunsOut ==
    /\ outputs # None
    /\ Len(rpc_requests[1]) = 1
    /\ rpc_requests[1][1].method = "LatestBlockhash"
    /\ LET request == rpc_requests[1][1]
           start == LatestSlot(latest_blockhash_storage, request.commitment)
       IN /\ request.rollback <= MAX_RECENT_BLOCKHASHES
          /\ request.min_context_slot = None
                \/ start >= request.min_context_slot[1]
          /\ start \in DOMAIN latest_blockhash_storage.slots
          /\ Cardinality(MatchesBeforeAbsent(latest_blockhash_storage, start,
                                             request.commitment)) < request.rollback

\* C10: when the rollback walk reaches an absent slot number before it has
\* found the required number of entries at the requested commitment, the
\* output is the failure invalid_params("failed to rollback block"), and
\* serving requests leaves the store unchanged.
C10_RollbackRunsOut ==
    /\ [](WalkRunsOut =>
             outputs = Some(<<Failure(rpc_requests[1][1].id,
                                      InvalidParams("failed to rollback block"))>>))
    /\ [][ServesBatch =>
             latest_blockhash_storage' = latest_blockhash_storage]_vars

\* C10 witness: only one slot is stored, it is Finalized, and a request with
\* rollback 1 at Finalized has been answered.
C10_Witness ==
    \E request \in LatestBlockhashRequests, s \in SlotIds :
        /\ ServedLatestBlockhash(request)
        /\ request.commitment = "Finalized"
        /\ request.rollback = 1
        /\ outputs # None
        /\ DOMAIN latest_blockhash_storage.slots = {s}
        /\ latest_blockhash_storage.slots[s].commitment = "Finalized"
        /\ latest_blockhash_storage.slot_finalized = s


\* ------------------------------------------------------------------------
\* Claims checked under SpecFees.
\* ------------------------------------------------------------------------
IsAscending(seq) == \A i \in 1 .. Len(seq) - 1 : seq[i] <= seq[i + 1]

Clamp(percentile) == IF percentile < 9999 THEN percentile ELSE 9999

\* C5: for an ascending fee vector v and a percentile p in 0 .. 10000,
\* get_percentile(v, p) is absent when v is empty and otherwise is the
\* element of v at the index k < len(v) that is the floor of
\* min(p, 9999) * len(v) / 10000, i.e. the k with
\* k * 10000 <= min(p, 9999) * len(v) < (k + 1) * 10000.
C5_PercentileLaw ==
    (fee_call # None /\ fee_call[1].op = "get_percentile") =>
        LET v == fee_call[1].fees
            p == fee_call[1].percentile
            scaled == Clamp(p) * Len(v)
        IN (IsAscending(v) /\ p \in 0 .. 10000) =>
               IF Len(v) = 0 THEN fee_call[1].result = None
               ELSE \E k \in 0 .. Len(v) - 1 :
                        /\ k * 10000 <= scaled
                        /\ scaled < (k + 1) * 10000
                        /\ fee_call[1].result = Some(v[k + 1])

\* A fee vector of two different prices read at percentile 10000: the clamp
\* decides that the last element, not nothing, is returned.
C5_Witness ==
    /\ fee_call # None
    /\ fee_call[1].op = "get_percentile"
    /\ fee_call[1].percentile = 10000
    /\ Len(fee_call[1].fees) = 2
    /\ fee_call[1].fees[1] < fee_call[1].fees[2]
    /\ fee_call[1].result = Some(fee_call[1].fees[2])

\* The indices of the non-vote transactions of the slot under query.
NonVote == {i \in 1 .. Len(fee_slot.transactions) : ~fee_slot.transactions[i].vote}

ElementsOf(seq) == {seq[i] : i \in 1 .. Len(seq)}

\* The non-vote transactions that list `account` as writable.
WritesTo(account) ==
    {i \in NonVote : account \in ElementsOf(fee_slot.transactions[i].writable)}

UnitPriceOf(i) == fee_slot.transactions[i].unit_price

\* The percentile value of the unit prices of the transactions I (non-empty):
\* the lowest price without a percentile, else the price x whose rank range
\* contains the index floor(min(p, 9999) * |I| / 10000).
PercentileValue(I, percentile) ==
    IF percentile = None THEN Min({UnitPriceOf(i) : i \in I})
    ELSE LET index == (Clamp(percentile[1]) * Cardinality(I)) \div 10000
         IN CHOOSE x \in {UnitPriceOf(i) : i \in I} :
                /\ Cardinality({i \in I : UnitPriceOf(i) < x}) <= index
                /\ index < Cardinality({i \in I : UnitPriceOf(i) <= x})

\* C6: get_fee returns the maximum of the global percentile value of the
\* slot's non-vote unit prices (0 when there is no non-vote transaction) and
\* the percentile values of the listed accounts that some non-vote
\* transaction writes to; so it is at least the global value, and it is 0
\* when the slot has no non-vote transaction.
C6_GetFeeIsMax ==
    (fee_call # None /\ fee_call[1].op = "get_fee") =>
        LET keys == ElementsOf(fee_call[1].account_keys)
            percentile == fee_call[1].percentile
            global == IF NonVote = {} THEN 0
                      ELSE PercentileValue(NonVote, percentile)
            listed == {PercentileValue(WritesTo(a), percentile)
                          : a \in {k \in keys : WritesTo(k) # {}}}
        IN /\ fee_call[1].result = Max({global} \cup listed)
           /\ fee_call[1].result >= global
           /\ NonVote = {} => fee_call[1].result = 0

\* A query whose listed account raises the fee above the global value, asked
\* after an account without history in the slot.
C6_Witness ==
    /\ fee_call # None
    /\ fee_call[1].op = "get_fee"
    /\ NonVote # {}
    /\ fee_call[1].percentile = None
    /\ Len(fee_call[1].account_keys) = 2
    /\ WritesTo(fee_call[1].account_keys[1]) # {}
    /\ WritesTo(fee_call[1].account_keys[2]) # {}
    /\ fee_call[1].result > PercentileValue(NonVote, None)
    /\ fee_call[1].result >
           PercentileValue(WritesTo(fee_call[1].account_keys[2]), None)

\* The transactions a filter counts according to the stated rule.
Counted(filter) ==
    {i \in NonVote :
        /\ ElementsOf(filter.read_write)
               \subseteq ElementsOf(fee_slot.transactions[i].writable)
        /\ ElementsOf(filter.read_only)
               \subseteq ElementsOf(fee_slot.transactions[i].readable)}

\* C7: get_filtered counts a transaction iff it is non-vote, every
\* read_write key is among its writable accounts and every read_only key
\* among its readable accounts; with both lists empty
\* total_transactions_filtered is the number of non-vote transactions.
C7_FilteredCount ==
    (fee_call # None /\ fee_call[1].op = "get_filtered") =>
        LET filter == fee_call[1].filter
            result == fee_call[1].result
        IN /\ result.total_transactions_filtered = Cardinality(Counted(filter))
           /\ (filter.read_write = <<>> /\ filter.read_only = <<>>) =>
                  result.total_transactions_filtered = Cardinality(NonVote)

\* A filter of two read_write keys over a slot of two non-vote transactions,
\* one writing to both keys and counted, one writing to a single key and not.
C7_Witness ==
    /\ fee_call # None
    /\ fee_call[1].op = "get_filtered"
    /\ Len(fee_call[1].filter.read_write) = 2
    /\ Cardinality(NonVote) = 2
    /\ \E i \in NonVote : Len(fee_slot.transactions[i].writable) = 2
    /\ \E i \in NonVote : Len(fee_slot.transactions[i].writable) = 1
    /\ fee_call[1].result.total_transactions_filtered = 1

\* ------------------------------------------------------------------------
\* Claims checked under SpecMux.
\* ------------------------------------------------------------------------
ReturnedOk(t) ==
    /\ http_tasks[t].pc = "returned"
    /\ http_tasks[t].result[1].ok

\* The id an output must carry for `call`.
CallId(call) == IF call.kind = "Notification" THEN NullId ELSE call.id

\* The calls the reducer answers: the three served methods, params accepted.
AnsweredByReducer(call) ==
    /\ call.kind = "MethodCall"
    /\ call.method \in {"getLatestBlockhash", "getRecentPrioritizationFees", "getSlot"}
    /\ call.params.parses

\* C4: when on_request returns successfully for n calls, n is at most
\* request_calls_max, the response holds exactly n outputs (an array for a
\* batch), the i-th output carries the id of the i-th call (null for a
\* notification), and the outputs of the reducer sit, in their order, at the
\* positions of the calls the reducer answers.
C4_OutputsFollowCalls ==
    \A t \in Tasks :
        ReturnedOk(t) =>
            LET task == http_tasks[t]
                n == Len(task.calls)
                body == task.result[1].body
                remote == {i \in 1 .. n : AnsweredByReducer(task.calls[i])}
                rank(i) == Cardinality({j \in remote : j <= i})
            IN /\ n <= request_calls_max
               /\ Len(body.outputs) = n
               /\ task.batched_calls => body.shape = "Batch"
               /\ \A i \in 1 .. n : body.outputs[i].id = CallId(task.calls[i])
               /\ remote # {} =>
                      /\ task.response_rx # None
                      /\ Len(task.response_rx[1]) = Cardinality(remote)
                      /\ \A i \in remote :
                             body.outputs[i] = task.response_rx[1][rank(i)]

\* A successful batch of two calls under different ids: the first answered
\* locally, the second by the reducer.
C4_Witness ==
    \E t \in Tasks :
        /\ ReturnedOk(t)
        /\ http_tasks[t].batched_calls
        /\ Len(http_tasks[t].calls) = 2
        /\ ~AnsweredByReducer(http_tasks[t].calls[1])
        /\ AnsweredByReducer(http_tasks[t].calls[2])
        /\ CallId(http_tasks[t].calls[1]) # CallId(http_tasks[t].calls[2])
        /\ http_tasks[t].result[1].body.outputs[2] = http_tasks[t].response_rx[1][1]

\* Slot{slot, hash, height} and then Status{slot, Finalized} are the events
\* processed since the empty state.
AfterSlotFinalized(slot, hash, height) ==
    geyser_log = <<[type |-> "Slot", slot |-> slot, hash |-> hash, height |-> height],
                   [type |-> "Status", slot |-> slot, commitment |-> "Finalized"]>>

\* A single getLatestBlockhash call with default config.
DefaultLatestBlockhashCall(task) ==
    /\ task.pc # "idle"
    /\ ~task.batched_calls
    /\ Len(task.calls) = 1
    /\ task.calls[1].kind = "MethodCall"
    /\ task.calls[1].method = "getLatestBlockhash"
    /\ task.calls[1].params = DefaultParams

\* The reducer has served the batch of `task` in this turn of its loop.
ServedInThisTurn(task) ==
    /\ task.response_rx # None
    /\ rpc_requests = Some(task.requests)
    /\ outputs = task.response_rx

\* C9: after Slot{s, h, H} and Status{s, Finalized} on an empty state, a
\* getLatestBlockhash call with default config is served as commitment
\* Finalized with rollback 0, the reducer answers it with context slot s,
\* blockhash H and last_valid_block_height h + MAX_RECENT_BLOCKHASHES, and
\* that answer is the response on_request returns.
C9_LatestBlockhashAfterFinalized ==
    \A t \in Tasks :
        LET task == http_tasks[t]
        IN DefaultLatestBlockhashCall(task) =>
               /\ task.requests =
                      <<[method |-> "LatestBlockhash", id |-> task.calls[1].id,
                         commitment |-> "Finalized", rollback |-> 0,
                         min_context_slot |-> None]>>
               /\ \A block \in MuxBlocks :
                      (/\ ServedInThisTurn(task)
                       /\ AfterSlotFinalized(MuxSlot, block.hash, block.height))
                      => task.response_rx =
                             Some(<<Success(task.calls[1].id,
                                 [context_slot |-> MuxSlot,
                                  blockhash |-> block.hash,
                                  last_valid_block_height |->
                                      block.height + MAX_RECENT_BLOCKHASHES])>>)
               /\ ReturnedOk(t) =>
                      task.result[1].body =
                          [shape |-> "Single", outputs |-> task.response_rx[1]]

\* The call served right after the two events, and returned.
C9_Served ==
    \E t \in Tasks, block \in MuxBlocks :
        /\ DefaultLatestBlockhashCall(http_tasks[t])
        /\ ServedInThisTurn(http_tasks[t])
        /\ AfterSlotFinalized(MuxSlot, block.hash, block.height)
        /\ block.height # MuxSlot

C9_Witness ==
    \E t \in Tasks :
        /\ C9_Served
        /\ ReturnedOk(t)
        /\ http_tasks[t].result[1].body.outputs[1].ok
        /\ http_tasks[t].result[1].body.outputs[1].result.context_slot = MuxSlot
\* ------------------------------------------------------------------------
\* SpecRpf: the reducer fed with slots that hold transactions and with
\* RecentPrioritizationFees requests that list accounts and a percentile.
\* ------------------------------------------------------------------------
\* Non-vote transactions with the given unit prices, no accounts listed.
PricedTransactions(prices) ==
    [i \in 1 .. Len(prices) |-> Tx(FALSE, 0, prices[i], <<>>, <<>>)]

\* The transaction lists of the Slot events of SpecRpf: none, four and three
\* non-vote transactions in no particular order of price, and a list with a
\* vote transaction and a transaction that writes to account 1.
RpfTransactions ==
    {<<>>,
     PricedTransactions(<<30, 10, 40, 20>>),
     PricedTransactions(<<500, 5, 50>>),
     <<Tx(TRUE, 0, 1, <<1>>, <<>>), Tx(FALSE, 0, 3, <<>>, <<>>),
       Tx(FALSE, 0, 7, <<1>>, <<>>)>>}

RpfRequests ==
    {[method |-> "RecentPrioritizationFees", id |-> i, pubkeys |-> k,
      percentile |-> p]
        : i \in RequestIds, k \in {<<>>, <<1>>}, p \in {None, Some(5000)}}

RpfRecvSlot ==
    /\ \E slot \in SlotIds, transactions \in RpfTransactions :
           GeyserSlot(slot, "H1", 1, transactions)
    /\ UNCHANGED <<mux_vars, conn_vars, ingest_vars, fee_vars, history_vars>>

RpfRecvRequests ==
    /\ \E request \in RpfRequests : RequestsArm(<<request>>, FALSE)
    /\ UNCHANGED <<mux_vars, conn_vars, ingest_vars, fee_vars, history_vars>>

NextRpf ==
    \/ RpfRecvSlot
    \/ RecvStop
    \/ RpfRecvRequests

SpecRpf == Init /\ [][NextRpf]_vars

\* ------------------------------------------------------------------------
\* Claims checked under SpecRpf.
\* ------------------------------------------------------------------------
\* The unit prices of the non-vote transactions of a list, as a sequence.
NonVotePrices(transactions) ==
    LET nonvote == SelectSeq(transactions, LAMBDA tx : ~tx.vote)
    IN [i \in 1 .. Len(nonvote) |-> nonvote[i].unit_price]

\* The unit prices of the non-vote transactions that write to `account`.
AccountWritePrices(transactions, account) ==
    LET writers == SelectSeq(transactions,
                       LAMBDA tx : ~tx.vote /\ account \in ElementsOf(tx.writable))
    IN [i \in 1 .. Len(writers) |-> writers[i].unit_price]

\* The percentile value of a non-empty sequence of prices: its minimum
\* without a percentile, else the price whose rank range contains the index
\* floor(min(p, 9999) * len / 10000).
RankedPrice(prices, percentile) ==
    LET I == 1 .. Len(prices)
    IN IF percentile = None THEN Min(ElementsOf(prices))
       ELSE LET index == (Clamp(percentile[1]) * Len(prices)) \div 10000
            IN CHOOSE x \in ElementsOf(prices) :
                   /\ Cardinality({i \in I : prices[i] < x}) <= index
                   /\ index < Cardinality({i \in I : prices[i] <= x})

\* What a slot with these transactions owes to a request: the largest of the
\* global value (0 without non-vote transactions) and the values of the
\* listed accounts that a non-vote transaction writes to.
ExpectedFee(transactions, pubkeys, percentile) ==
    LET global == IF NonVotePrices(transactions) = <<>> THEN 0
                  ELSE RankedPrice(NonVotePrices(transactions), percentile)
        listed == {RankedPrice(AccountWritePrices(transactions, a), percentile)
                      : a \in {k \in ElementsOf(pubkeys) :
                                  AccountWritePrices(transactions, k) # <<>>}}
    IN Max({global} \cup listed)

\* The RecentPrioritizationFees request served in the last step and its output.
RpfServed ==
    /\ rpc_requests # None
    /\ outputs # None
    /\ Len(rpc_requests[1]) = 1
    /\ rpc_requests[1][1].method = "RecentPrioritizationFees"

\* C11: a RecentPrioritizationFees request is answered with exactly one
\* entry per slot of the recent window, in strictly ascending slot order,
\* each carrying the fee of that slot for the request's accounts and
\* percentile; without percentile and accounts the fee is the lowest
\* non-vote unit price, and with percentile 5000 the slots with unit prices
\* 10, 20, 30, 40 and 5, 50, 500 yield 30 and 50.
C11_FeesPerWindowSlot ==
    RpfServed =>
        LET request == rpc_requests[1][1]
            output == outputs[1][1]
            result == output.result
            plain == request.pubkeys = <<>>
        IN /\ output.ok
           /\ output.id = request.id
           /\ Len(result) = Cardinality(DOMAIN slots_info)
           /\ {result[i].slot : i \in 1 .. Len(result)} = DOMAIN slots_info
           /\ \A i \in 1 .. Len(result) - 1 : result[i].slot < result[i + 1].slot
           /\ \A i \in 1 .. Len(result) :
                  LET transactions == slots_info[result[i].slot].transactions
                      prices == ElementsOf(NonVotePrices(transactions))
                      fee == result[i].prioritization_fee
                  IN /\ fee = ExpectedFee(transactions, request.pubkeys,
                                          request.percentile)
                     /\ (plain /\ request.percentile = None /\ prices # {})
                            => fee = Min(prices)
                     /\ (plain /\ request.percentile = Some(5000)
                               /\ prices = {10, 20, 30, 40}) => fee = 30
                     /\ (plain /\ request.percentile = Some(5000)
                               /\ prices = {5, 50, 500}) => fee = 50

\* The window holds the slots with prices 10..40 and 5..500, and a request
\* with percentile 5000 and no accounts was answered 30 and 50.
C11_Witness ==
    /\ RpfServed
    /\ rpc_requests[1][1].pubkeys = <<>>
    /\ rpc_requests[1][1].percentile = Some(5000)
    /\ DOMAIN slots_info = {1, 2}
    /\ ElementsOf(NonVotePrices(slots_info[1].transactions)) = {10, 20, 30, 40}
    /\ ElementsOf(NonVotePrices(slots_info[2].transactions)) = {5, 50, 500}
    /\ outputs[1][1].result =
           <<[slot |-> 1, prioritization_fee |-> 30],
             [slot |-> 2, prioritization_fee |-> 50]>>

\* ------------------------------------------------------------------------
\* SpecWs: one WebSocket connection against the reducer.  The ingest channel
\* carries events of one slot; the client sends at most MaxFrames frames and
\* the reducer handles at most MaxNotices events.
\* ------------------------------------------------------------------------
WsSlot == 1

MaxFrames == 2

\* One notice more than the channel retains, so that a receiver can lag.
MaxNotices == streams_channel_capacity + 1

\* Three non-vote transactions, two of them writing to account 1 with fees
\* 100 and 300, and one vote transaction.
WsScenarioTransactions ==
    <<Tx(FALSE, 300, 0, <<1, 2>>, <<>>), Tx(FALSE, 50, 0, <<2>>, <<>>),
      Tx(TRUE, 7, 0, <<1>>, <<>>), Tx(FALSE, 100, 0, <<1>>, <<>>)>>

WsTransactions == {WsScenarioTransactions}

SubscribeConfig(read_write, read_only, levels) ==
    [read_write |-> read_write, read_only |-> read_only, levels |-> levels]

\* Two configs that make a filter and one that try_from rejects.
WsConfigs ==
    {SubscribeConfig(<<1>>, <<>>, <<5000, 9000>>),
     SubscribeConfig(<<>>, <<>>, <<>>),
     SubscribeConfig(<<1, 2>>, <<1>>, <<>>)}

WsFrames ==
    {[kind |-> k] : k \in {"Ping", "Pong", "Close", "InvalidMessage"}}
    \cup {[kind |-> "MethodCall", method |-> "SlotsSubscribe", id |-> 1,
           params |-> [parses |-> TRUE, config |-> config]] : config \in WsConfigs}

reducer_locals == <<latest_blockhash_storage, slots_info, loop_state,
                    rpc_requests, outputs>>

WsRecvStatus ==
    /\ Len(broadcast_log) < MaxNotices
    /\ \E commitment \in Commitments :
           /\ GeyserStatus(WsSlot, commitment)
           /\ broadcast_log' =
                  IF loop_state' = "running"
                  THEN Append(broadcast_log,
                           [type |-> "Status", slot |-> WsSlot,
                            commitment |-> commitment])
                  ELSE broadcast_log
    /\ UNCHANGED <<mux_vars, ws_vars, updates_log, frames_log, ingest_vars, fee_vars, history_vars>>

WsRecvSlot ==
    /\ Len(broadcast_log) < MaxNotices
    /\ \E transactions \in WsTransactions :
           /\ GeyserSlot(WsSlot, "H1", 1, transactions)
           /\ broadcast_log' =
                  Append(broadcast_log,
                      [type |-> "Slot",
                       info |-> StreamsSlotInfoNew(WsSlot, "H1", 1, transactions)])
    /\ UNCHANGED <<mux_vars, ws_vars, updates_log, frames_log, ingest_vars, fee_vars, history_vars>>

WsRefuse ==
    /\ \E c \in Connections : WsUpgradeFailed(c)
    /\ UNCHANGED <<reducer_locals, mux_vars, ws_history_vars, ingest_vars, fee_vars, history_vars>>

\* The history of a connection starts with the number of notices broadcast
\* before it subscribed.
WsConnect ==
    /\ \E c \in Connections :
           /\ WsAccept(c)
           /\ updates_log' = [updates_log EXCEPT ![c] =
                  Append(@, [update |-> [type |-> "Subscribed",
                                         at |-> Len(broadcast_log)],
                             filter |-> None])]
    /\ UNCHANGED <<reducer_locals, mux_vars, broadcast_log, frames_log, ingest_vars, fee_vars, history_vars>>

WsSend ==
    /\ \E c \in Connections, feed_ok \in BOOLEAN : WsFeed(c, feed_ok)
    /\ UNCHANGED <<reducer_locals, mux_vars, ws_history_vars, ingest_vars, fee_vars, history_vars>>

WsFlushed ==
    /\ \E c \in Connections, flush_ok \in BOOLEAN : WsFlush(c, flush_ok)
    /\ UNCHANGED <<reducer_locals, mux_vars, ws_history_vars, ingest_vars, fee_vars, history_vars>>

WsFrame ==
    /\ \E c \in Connections :
           /\ websockets[c].pc = "loop"
           /\ websockets[c].websocket_rx < MaxFrames
           /\ \E frame \in WsFrames, feed_ok \in BOOLEAN :
                  WsInbound(c, frame, feed_ok)
    /\ UNCHANGED <<reducer_locals, mux_vars, ws_history_vars, ingest_vars, fee_vars, history_vars>>

WsNotice ==
    /\ \E c \in Connections, feed_ok \in BOOLEAN :
           /\ WsUpdate(c, feed_ok)
           /\ updates_log' = [updates_log EXCEPT ![c] =
                  Append(@, [update |-> IF streams_rx[c].lagged
                                        THEN [type |-> "Lagged"]
                                        ELSE Head(streams_rx[c].queue),
                             filter |-> websockets[c].filter])]
    /\ UNCHANGED <<reducer_locals, mux_vars, broadcast_log, frames_log, ingest_vars, fee_vars, history_vars>>

NextWs ==
    \/ WsRecvStatus
    \/ WsRecvSlot
    \/ RecvStop
    \/ WsRefuse
    \/ WsConnect
    \/ WsSend
    \/ WsFlushed
    \/ WsFrame
    \/ WsNotice

SpecWs == Init /\ [][NextWs]_vars

\* ------------------------------------------------------------------------
\* Claims checked under SpecWs.
\* ------------------------------------------------------------------------
\* The message waiting in the pending slot of connection `c` is the push of
\* the update its receiver returned last.
PendingPush(c) ==
    /\ websockets[c].pc = "loop"
    /\ websockets[c].websocket_tx_message # None
    /\ websockets[c].websocket_tx_message[1].type = "Text"
    /\ websockets[c].websocket_tx_message[1].output.ok
    /\ websockets[c].websocket_tx_message[1].output.result.type \in {"Slot", "Status"}

PendingResult(c) == websockets[c].websocket_tx_message[1].output.result

LastUpdate(c) == updates_log[c][Len(updates_log[c])]

\* A slot of three non-vote transactions, two of which write to `account`
\* with fees 100 and 300, and one vote transaction.
ThreeNonVoteOneVote(transactions, account) ==
    LET I == 1 .. Len(transactions)
        nonvote == {i \in I : ~transactions[i].vote}
        writers == {i \in nonvote : account \in ElementsOf(transactions[i].writable)}
    IN /\ Cardinality(nonvote) = 3
       /\ Cardinality(I \ nonvote) = 1
       /\ Cardinality(writers) = 2
       /\ {transactions[i].fee : i \in writers} = {100, 300}

\* The last update of `c` is a Slot notice of such a slot, received under
\* the filter {readWrite: [account], levels: [5000, 9000]}.
ScenarioSlotPush(c, account) ==
    /\ PendingPush(c)
    /\ LastUpdate(c).update.type = "Slot"
    /\ ThreeNonVoteOneVote(LastUpdate(c).update.info.transactions, account)
    /\ LastUpdate(c).filter # None
    /\ LastUpdate(c).filter[1].filter =
           [read_write |-> <<account>>, read_only |-> <<>>,
            levels |-> <<5000, 9000>>]

\* The values of the push of the scenario, but for total_transactions.
ScenarioValues(push) ==
    /\ push.type = "Slot"
    /\ push.total_transactions_filtered = 2
    /\ push.total_transactions_vote = 1
    /\ push.fee_average.sum = 200 * push.fee_average.count
    /\ push.fee_levels = <<Some(300), Some(300)>>

\* C12 as stated: for a subscriber with filter {readWrite: [A], levels:
\* [5000, 9000]} and a slot of three non-vote transactions (A writable in
\* two, fees 100 and 300) and one vote transaction, the Slot push reports
\* total_transactions_filtered 2, total_transactions_vote 1,
\* total_transactions 3, fee_average 200 and fee_levels [300, 300].
C12_SlotPushScenarioTotalThree ==
    \A c \in Connections, account \in Pubkeys :
        ScenarioSlotPush(c, account) =>
            /\ ScenarioValues(PendingResult(c))
            /\ PendingResult(c).total_transactions = 3

\* C12, amended: the same push reports total_transactions 4, the number of
\* all transactions of the slot, the vote transaction included; the other
\* four values are as stated.
C12_SlotPushScenario ==
    \A c \in Connections, account \in Pubkeys :
        ScenarioSlotPush(c, account) =>
            /\ ScenarioValues(PendingResult(c))
            /\ PendingResult(c).total_transactions = 4
            /\ PendingResult(c).total_transactions =
                   Len(LastUpdate(c).update.info.transactions)

\* The push of the scenario waits in the pending slot of the connection.
C12_Witness ==
    /\ ScenarioSlotPush("w1", 1)
    /\ ScenarioValues(PendingResult("w1"))
    /\ PendingResult("w1").total_transactions = 4

\* ------------------------------------------------------------------------
\* Claims on the request channel, checked under SpecMux.
\* ------------------------------------------------------------------------
\* The request of task `t` holds more calls than request_calls_max.
Oversize(t) == Len(http_tasks[t].calls) > request_calls_max

\* C13: an HTTP request with more calls than request_calls_max fails as a
\* whole: it returns the error of the ensure, no output was made for any of
\* its calls, none of its calls was turned into a sub-request, no batch of it
\* is in the requests channel and no batch of it is served by the reducer.
C13_OversizeRequestRejected ==
    \A t \in Tasks :
        Oversize(t) =>
            /\ http_tasks[t].pc = "returned"
            /\ http_tasks[t].result =
                   Some(Err("exceed number of allowed calls in one request"))
            /\ http_tasks[t].outputs = <<>>
            /\ http_tasks[t].requests = <<>>
            /\ http_tasks[t].response_rx = None
            /\ \A i \in 1 .. Len(requests_rx) : requests_rx[i].response_tx # t
            /\ rpc_requests # None =>
                   \E u \in Tasks \ {t} : http_tasks[u].requests = rpc_requests[1]

\* A batch of request_calls_max + 1 calls, one of them answered by the
\* reducer when let through, was rejected while the reducer runs.
C13_Witness ==
    /\ Oversize("t1")
    /\ http_tasks["t1"].pc = "returned"
    /\ \E i \in 1 .. Len(http_tasks["t1"].calls) :
           AnsweredByReducer(http_tasks["t1"].calls[i])
    /\ loop_state = "running"
    /\ requests_rx = <<>>

\* The receiver of `c` reports lag in this step.
ReportsLag(c) ==
    /\ Len(updates_log'[c]) = Len(updates_log[c]) + 1
    /\ updates_log'[c][Len(updates_log'[c])].update.type = "Lagged"

\* The receiver of `c` has reported lag.
LagReported(c) ==
    \E i \in 1 .. Len(updates_log[c]) : updates_log[c][i].update.type = "Lagged"

LaggedCloseFrame ==
    [type |-> "Close",
     frame |-> Some([code |-> "Error", reason |-> "subscription lagged"])]

\* C14: when the broadcast receiver of a connection reports lag, the loop of
\* the connection ends in that step with the close reason "subscription
\* lagged" and feeds one message, a close frame with the Error code and that
\* reason, to the socket (unless the socket refuses it); from then on
\* nothing more is fed to that socket.
C14_LagClosesConnection ==
    [][\A c \in Connections :
          /\ ReportsLag(c) =>
                 /\ websockets'[c].pc = "returned"
                 /\ websockets'[c].loop_close_reason = Some(Some("subscription lagged"))
                 /\ \/ /\ websocket_tx'[c].fed =
                              Append(websocket_tx[c].fed, LaggedCloseFrame)
                       /\ websocket_tx'[c].failed = websocket_tx[c].failed
                    \/ /\ websocket_tx'[c].fed = websocket_tx[c].fed
                       /\ websocket_tx'[c].failed
          /\ LagReported(c) =>
                 /\ websockets'[c] = websockets[c]
                 /\ websocket_tx'[c] = websocket_tx[c]]_vars

\* A connection that was fed an answer to its frame lagged behind, and the
\* close frame is the last message of its socket.
C14_Witness ==
    /\ LagReported("w1")
    /\ websockets["w1"].pc = "returned"
    /\ Len(websocket_tx["w1"].fed) >= 2
    /\ websocket_tx["w1"].fed[Len(websocket_tx["w1"].fed)] = LaggedCloseFrame
    /\ \A i \in 1 .. Len(websocket_tx["w1"].fed) - 1 :
           websocket_tx["w1"].fed[i].type = "Text"
    /\ Len(broadcast_log) > streams_channel_capacity

\* ------------------------------------------------------------------------
\* SpecQueue: two on_request calls against the reducer and its requests
\* channel.  The ingest channel carries the events of the lowest slot, at
\* most MaxNotices of them, so that a rollback walk can stand on slot 0.
\* ------------------------------------------------------------------------
QueueTasks == {"t1", "t2"}

QueueSlot == Min(SlotIds)

\* The bodies of the requests: a single call and a batch answered by the
\* reducer, a batch answered locally and a batch of too many calls.
QueueBodies ==
    {[batched_calls |-> FALSE,
      calls |-> <<MethodCall(1, "getSlot", DefaultParams)>>],
     [batched_calls |-> TRUE,
      calls |-> <<MethodCall(1, "getLatestBlockhash", RollbackParams),
                  MethodCall(2, "getSlot", DefaultParams)>>],
     [batched_calls |-> TRUE,
      calls |-> <<MethodCall(1, "getVersion", DefaultParams)>>],
     [batched_calls |-> TRUE,
      calls |-> [i \in 1 .. request_calls_max + 1 |->
                    MethodCall(i, "getSlot", DefaultParams)]]}

QueueIdle ==
    /\ http_tasks = [t \in QueueTasks |-> TaskIdle]
    /\ requests_rx = <<>>

InitQueue ==
    /\ ReducerInit
    /\ QueueIdle
    /\ WsIdle
    /\ FeeIdle
    /\ HistoryInit

QueueRecvStatus ==
    /\ Len(broadcast_log) < MaxNotices
    /\ GeyserStatus(QueueSlot, "Finalized")
    /\ broadcast_log' =
           IF loop_state' = "running"
           THEN Append(broadcast_log,
                    [type |-> "Status", slot |-> QueueSlot,
                     commitment |-> "Finalized"])
           ELSE broadcast_log
    /\ UNCHANGED <<mux_vars, ws_vars, updates_log, frames_log, ingest_vars, fee_vars, history_vars>>

QueueRecvSlot ==
    /\ Len(broadcast_log) < MaxNotices
    /\ GeyserSlot(QueueSlot, "H1", 1, <<>>)
    /\ broadcast_log' =
           Append(broadcast_log,
               [type |-> "Slot",
                info |-> StreamsSlotInfoNew(QueueSlot, "H1", 1, <<>>)])
    /\ UNCHANGED <<mux_vars, ws_vars, updates_log, frames_log, ingest_vars, fee_vars, history_vars>>

QueueRequest ==
    \E t \in QueueTasks :
        /\ http_tasks[t].pc = "idle"
        /\ \E body \in QueueBodies :
               OnRequest(t, "Triton", body.batched_calls, body.calls)

QueueShutdown == \E t \in QueueTasks : SelectShutdown(t)

QueueTimeout == \E t \in QueueTasks : SelectTimeout(t)

QueueResponse == \E t \in QueueTasks : SelectResponse(t)

NextQueue ==
    \/ QueueRecvStatus
    \/ QueueRecvSlot
    \/ RecvStop
    \/ QueueRequest
    \/ QueueShutdown
    \/ QueueTimeout
    \/ QueueResponse
    \/ RecvBatch

SpecQueue == InitQueue /\ [][NextQueue]_vars

\* ------------------------------------------------------------------------
\* Claims checked under SpecQueue.
\* ------------------------------------------------------------------------
\* Task `t` enters on_request in this step with sub-requests for the
\* reducer while the requests channel is open and holds request_queue_max
\* batches.
FindsChannelFull(t) ==
    /\ http_tasks[t].pc = "idle"
    /\ http_tasks'[t].pc # "idle"
    /\ http_tasks'[t].requests # <<>>
    /\ ~ReceiverDropped
    /\ Len(requests_rx) >= request_queue_max

\* C15: the requests channel never holds more than request_queue_max
\* batches; an on_request that finds it full returns "requests queue is
\* full" in the step it entered, the channel and the reducer's state are as
\* before, and the reducer stays ready to take the next ingest event.
C15_QueueBounded ==
    /\ [](Len(requests_rx) <= request_queue_max)
    /\ [][\A t \in QueueTasks :
             FindsChannelFull(t) =>
                 /\ http_tasks'[t].pc = "returned"
                 /\ http_tasks'[t].result = Some(Err("requests queue is full"))
                 /\ http_tasks'[t].shutdown = FALSE
                 /\ requests_rx' = requests_rx
                 /\ reducer_vars' = reducer_vars]_vars
    /\ []((loop_state = "running" /\ Len(broadcast_log) < MaxNotices)
             => ENABLED QueueRecvSlot)

\* One task waits for the reducer with its batch in the channel, the other
\* was turned away, and the reducer still runs.
C15_Witness ==
    /\ http_tasks["t1"].pc = "select"
    /\ Len(requests_rx) = request_queue_max
    /\ http_tasks["t2"].result = Some(Err("requests queue is full"))
    /\ loop_state = "running"

\* on_request of task `t` has returned after it enqueued a batch.
ReturnedAfterEnqueue(t) ==
    /\ http_tasks[t].pc = "returned"
    /\ http_tasks[t].requests # <<>>
    /\ http_tasks[t].result \notin {Some(Err("requests queue is full")),
                                    Some(Err("processed loop is closed"))}

\* The reducer's outputs were spliced and the response returned, the flag
\* never set.
OutcomeSpliced(t) ==
    /\ http_tasks[t].result[1].ok
    /\ http_tasks[t].response_rx # None
    /\ Len(http_tasks[t].response_rx[1]) = Len(http_tasks[t].requests)
    /\ \A i \in 1 .. Len(http_tasks[t].outputs) : http_tasks[t].outputs[i] # None
    /\ ~http_tasks[t].shutdown

\* A failure with the flag set.
OutcomeCancelled(t, error) ==
    /\ http_tasks[t].result = Some(Err(error))
    /\ http_tasks[t].shutdown

\* The response sink was dropped unanswered: the update loop has returned or
\* panicked; the flag is not set.
OutcomeDropped(t) ==
    /\ http_tasks[t].result = Some(Err("request dropped"))
    /\ http_tasks[t].response_rx = None
    /\ ReceiverDropped
    /\ ~http_tasks[t].shutdown

\* C16 as stated: every on_request that enqueued a batch ends in exactly one
\* of three outcomes: the reducer's response spliced and returned with the
\* flag unset, the failure "request timeout" with the flag set, or the
\* failure "connection closed" with the flag set.
C16_ThreeOutcomes ==
    \A t \in QueueTasks :
        ReturnedAfterEnqueue(t) =>
            \/ OutcomeSpliced(t)
            \/ OutcomeCancelled(t, "request timeout")
            \/ OutcomeCancelled(t, "connection closed")

\* C16, amended: every on_request that enqueued a batch ends in exactly one
\* of four outcomes: the three above, or the failure "request dropped" with
\* the flag unset when the update loop returned or panicked before it
\* answered the batch.
C16_FourOutcomes ==
    \A t \in QueueTasks :
        ReturnedAfterEnqueue(t) =>
            Cardinality({o \in {"spliced", "timeout", "closed", "dropped"} :
                \/ o = "spliced" /\ OutcomeSpliced(t)
                \/ o = "timeout" /\ OutcomeCancelled(t, "request timeout")
                \/ o = "closed" /\ OutcomeCancelled(t, "connection closed")
                \/ o = "dropped" /\ OutcomeDropped(t)}) = 1

\* One request was answered by the reducer, the other lost its batch when
\* the update loop took the shutdown sentinel.
C16_Witness ==
    /\ ReturnedAfterEnqueue("t1")
    /\ OutcomeSpliced("t1")
    /\ ReturnedAfterEnqueue("t2")
    /\ OutcomeDropped("t2")
    /\ loop_state = "stopped"

\* The update loop takes the oldest batch of the requests channel in this step.
Dequeues == requests_rx # <<>> /\ requests_rx' = Tail(requests_rx)

\* The outputs the update loop sent in this step through the response sink of
\* task `t`: None when it sent nothing.
SentTo(t) ==
    IF http_tasks[t].pc = "select" THEN http_tasks'[t].response_rx ELSE outputs'

\* C17: when the reducer dequeues a batch whose cancellation flag is set it
\* computes no outputs and sends nothing through the batch's response sink;
\* when the flag is not set it sends exactly one output per sub-request, in
\* the order of the sub-requests; in both cases the blockhash store and the
\* recent window are as before.
C17_DequeueAnswersUnlessCancelled ==
    [][Dequeues =>
          LET batch == Head(requests_rx)
              t == batch.response_tx
          IN /\ http_tasks[t].shutdown =>
                    /\ outputs' = None
                    /\ http_tasks' = http_tasks
             /\ ~http_tasks[t].shutdown =>
                    /\ outputs' # None
                    /\ SentTo(t) = outputs'
                    /\ Len(outputs'[1]) = Len(batch.requests)
                    /\ \A i \in 1 .. Len(batch.requests) :
                           outputs'[1][i].id = batch.requests[i].id
             /\ latest_blockhash_storage' = latest_blockhash_storage
             /\ slots_info' = slots_info]_vars

\* Task `t` enters on_request in this step with a call for the reducer.
IssuesReducerCall(t) ==
    /\ http_tasks[t].pc = "idle"
    /\ http_tasks'[t].pc # "idle"
    /\ \E i \in 1 .. Len(http_tasks'[t].calls) :
           AnsweredByReducer(http_tasks'[t].calls[i])

\* The batch of task `t` is in the requests channel.
Queued(t) == \E i \in 1 .. Len(requests_rx) : requests_rx[i].response_tx = t

\* C18: once the update loop has taken the shutdown sentinel or found the
\* ingest channel closed, it changes none of its state, hands no notice to
\* the broadcast channel and answers no batch; every on_request entered
\* from then on with a call for the reducer fails, with "processed loop is
\* closed" unless it holds too many calls; and an on_request whose batch is
\* still in the channel never returns a success.
C18_NothingAfterStop ==
    [][loop_state = "stopped" =>
          /\ reducer_vars' = reducer_vars
          /\ broadcast_log' = broadcast_log
          /\ requests_rx' = requests_rx
          /\ \A t \in QueueTasks :
                 /\ http_tasks'[t].response_rx = http_tasks[t].response_rx
                 /\ IssuesReducerCall(t) =>
                        /\ http_tasks'[t].pc = "returned"
                        /\ http_tasks'[t].result =
                               IF Len(http_tasks'[t].calls) > request_calls_max
                               THEN Some(Err("exceed number of allowed calls in one request"))
                               ELSE Some(Err("processed loop is closed"))
                 /\ (Queued(t) /\ http_tasks'[t].pc = "returned") =>
                        ~http_tasks'[t].result[1].ok]_vars

\* After the sentinel, a request entered and failed on the closed channel,
\* and the request whose batch was still queued lost it.
C18_Witness ==
    /\ loop_state = "stopped"
    /\ broadcast_log # <<>>
    /\ http_tasks["t1"].result = Some(Err("processed loop is closed"))
    /\ Queued("t2")
    /\ http_tasks["t2"].result = Some(Err("request dropped"))

IsPush(message) ==
    /\ message.type = "Text"
    /\ message.output.ok
    /\ message.output.result.type \in {"Status", "Slot"}

\* The pushes among the messages fed to the socket of `c`, in their order.
PushesFed(c) == SelectSeq(websocket_tx[c].fed, IsPush)

\* The same with the push that waits in the pending slot at their end.
PushesMade(c) ==
    IF websockets[c].websocket_tx_message # None
       /\ IsPush(websockets[c].websocket_tx_message[1])
    THEN Append(PushesFed(c), websockets[c].websocket_tx_message[1])
    ELSE PushesFed(c)

\* The entries of the history of `c` that are notices.
NoticesReceived(c) ==
    SelectSeq(updates_log[c], LAMBDA e : e.update.type \in {"Status", "Slot"})

\* The notices among them that owe a push: those received under a filter,
\* but for the Status notices at Processed.
OwesPush(e) ==
    /\ e.filter # None
    /\ e.update.type = "Status" => e.update.commitment # "Processed"

\* The push a notice owes under the filter it was received with.
PushOwed(e) ==
    Text(Success(e.filter[1].id,
        IF e.update.type = "Status"
        THEN [type |-> "Status", slot |-> e.update.slot,
              commitment |-> e.update.commitment]
        ELSE get_filtered(e.update.info, e.filter[1].filter)))

PushesOwed(c) ==
    LET owing == SelectSeq(NoticesReceived(c), OwesPush)
    IN [i \in 1 .. Len(owing) |-> PushOwed(owing[i])]

IsPrefix(s, t) == Len(s) <= Len(t) /\ s = SubSeq(t, 1, Len(s))

\* The notices broadcast since `c` subscribed.
BroadcastSince(c) ==
    SubSeq(broadcast_log, updates_log[c][1].update.at + 1, Len(broadcast_log))

ReceivesStatus(c) ==
    /\ Len(updates_log'[c]) = Len(updates_log[c]) + 1
    /\ updates_log'[c][Len(updates_log'[c])].update.type = "Status"

IsStatusPush(message) == IsPush(message) /\ message.output.result.type = "Status"

\* The Status notices received by `c` under a filter at Confirmed or Finalized.
StatusesOwingPush(c) ==
    SelectSeq(updates_log[c], LAMBDA e :
        /\ e.update.type = "Status"
        /\ e.update.commitment \in {"Confirmed", "Finalized"}
        /\ e.filter # None)

\* C20: no Status push carries the commitment Processed: a connection that
\* receives a Status notice at Processed emits nothing, and one that
\* receives a Status notice at Confirmed or Finalized under a filter emits
\* exactly one Status push, with the slot and the commitment of the notice.
C20_NoProcessedStatusPush ==
    /\ [][\A c \in Connections :
             ReceivesStatus(c) =>
                 LET e == updates_log'[c][Len(updates_log'[c])]
                 IN /\ websocket_tx'[c] = websocket_tx[c]
                    /\ websockets'[c].pc = "loop"
                    /\ websockets'[c].websocket_tx_message =
                           IF e.update.commitment = "Processed" \/ e.filter = None
                           THEN None
                           ELSE Some(Text(Success(e.filter[1].id,
                                    [type |-> "Status", slot |-> e.update.slot,
                                     commitment |-> e.update.commitment])))]_vars
    /\ [](\A c \in Connections :
             LET made == SelectSeq(PushesMade(c), IsStatusPush)
             IN /\ \A i \in 1 .. Len(made) :
                       made[i].output.result.commitment \in {"Confirmed", "Finalized"}
                /\ websockets[c].pc = "loop" =>
                       Len(made) = Len(StatusesOwingPush(c)))

\* A subscriber received a Status at Processed and a Status at another
\* level, and was fed one Status push.
C20_Witness ==
    /\ Len(StatusesOwingPush("w1")) = 1
    /\ \E i \in 1 .. Len(updates_log["w1"]) :
           /\ updates_log["w1"][i].update.type = "Status"
           /\ updates_log["w1"][i].update.commitment = "Processed"
           /\ updates_log["w1"][i].filter # None
    /\ Len(SelectSeq(websocket_tx["w1"].fed, IsStatusPush)) = 1
    /\ websockets["w1"].websocket_tx_message = None
    /\ websockets["w1"].pc = "loop"

\* ------------------------------------------------------------------------
\* SpecResub: one WebSocket connection that calls SlotsSubscribe more than
\* once, under two ids and with two filters, against the notices of one slot.
\* The sink of the connection accepts every message; the frames received are
\* recorded.
\* ------------------------------------------------------------------------
SubscribeFrame(id, config) ==
    [kind |-> "MethodCall", method |-> "SlotsSubscribe", id |-> id,
     params |-> [parses |-> TRUE, config |-> config]]

\* Calls under two ids: two configs that make different filters, and one
\* that try_from rejects.
ResubFrames ==
    {SubscribeFrame(id, config) :
        id \in {1, 2},
        config \in {SubscribeConfig(<<1>>, <<>>, <<5000, 9000>>),
                    SubscribeConfig(<<>>, <<>>, <<>>)}}
    \cup {SubscribeFrame(2, SubscribeConfig(<<1, 2>>, <<1>>, <<>>))}

ResubFrame ==
    /\ \E c \in Connections :
           /\ websockets[c].pc = "loop"
           /\ websockets[c].websocket_rx < MaxFrames
           /\ \E frame \in ResubFrames :
                  /\ WsInbound(c, frame, TRUE)
                  /\ frames_log' = [frames_log EXCEPT ![c] = Append(@, frame)]
    /\ UNCHANGED <<reducer_locals, mux_vars, broadcast_log, updates_log,
                   ingest_vars, fee_vars, history_vars>>

ResubSend ==
    /\ \E c \in Connections : WsFeed(c, TRUE)
    /\ UNCHANGED <<reducer_locals, mux_vars, ws_history_vars, ingest_vars,
                   fee_vars, history_vars>>

ResubFlushed ==
    /\ \E c \in Connections : WsFlush(c, TRUE)
    /\ UNCHANGED <<reducer_locals, mux_vars, ws_history_vars, ingest_vars,
                   fee_vars, history_vars>>

ResubNotice ==
    /\ \E c \in Connections :
           /\ WsUpdate(c, TRUE)
           /\ updates_log' = [updates_log EXCEPT ![c] =
                  Append(@, [update |-> IF streams_rx[c].lagged
                                        THEN [type |-> "Lagged"]
                                        ELSE Head(streams_rx[c].queue),
                             filter |-> websockets[c].filter])]
    /\ UNCHANGED <<reducer_locals, mux_vars, broadcast_log, frames_log,
                   ingest_vars, fee_vars, history_vars>>

NextResub ==
    \/ WsRecvStatus
    \/ WsRecvSlot
    \/ WsConnect
    \/ ResubFrame
    \/ ResubSend
    \/ ResubFlushed
    \/ ResubNotice

SpecResub == Init /\ [][NextResub]_vars

\* The acknowledgement of a SlotsSubscribe call.
IsAck(message) ==
    /\ message.type = "Text"
    /\ message.output.ok
    /\ message.output.result.type = "subscribed"

\* A frame that is a SlotsSubscribe call whose config makes a filter.
IsValidSubscribe(frame) ==
    /\ frame.kind = "MethodCall"
    /\ frame.method = "SlotsSubscribe"
    /\ frame.params.parses
    /\ SlotSubscribeFilterTryFrom(frame.params.config).ok

\* The successful SlotsSubscribe calls of `c`, in the order received.
ValidSubscribes(c) == SelectSeq(frames_log[c], IsValidSubscribe)

\* The number of acknowledgements fed to the socket of `c` before its i-th
\* message.
AcksBefore(c, i) ==
    Len(SelectSeq(SubSeq(websocket_tx[c].fed, 1, i - 1), IsAck))

\* The i-th message fed to `c` is a push made for the call `frame`: it has
\* the id of the call and, for a Slot push, the payload of a broadcast Slot
\* notice under the filter of the call.
PushMadeFor(c, i, frame) ==
    LET message == websocket_tx[c].fed[i]
        filter == SlotSubscribeFilterTryFrom(frame.params.config).body
    IN /\ message.output.id = frame.id
       /\ message.output.result.type = "Slot" =>
              \E n \in 1 .. Len(broadcast_log) :
                  /\ broadcast_log[n].type = "Slot"
                  /\ message.output.result =
                         get_filtered(broadcast_log[n].info, filter)

\* Every push fed to a socket follows at least one acknowledgement and is
\* made for the call that the last acknowledgement before it answers.
PushesUseNewestSubscribe ==
    \A c \in Connections :
        \A i \in 1 .. Len(websocket_tx[c].fed) :
            IsPush(websocket_tx[c].fed[i]) =>
                /\ AcksBefore(c, i) \in 1 .. Len(ValidSubscribes(c))
                /\ PushMadeFor(c, i, ValidSubscribes(c)[AcksBefore(c, i)])

\* A step in which `c` receives a valid SlotsSubscribe call while it has a
\* filter leaves the filter of the call, under its id, and the
\* acknowledgement "subscribed" with that id as the pending message.
ResubscribeReplaces ==
    \A c \in Connections :
        (/\ Len(frames_log'[c]) = Len(frames_log[c]) + 1
         /\ IsValidSubscribe(frames_log'[c][Len(frames_log'[c])])
         /\ websockets[c].filter # None)
        => LET frame == frames_log'[c][Len(frames_log'[c])]
           IN /\ websockets'[c].filter =
                     Some([id |-> frame.id,
                           filter |-> SlotSubscribeFilterTryFrom(
                                          frame.params.config).body])
              /\ websockets'[c].websocket_tx_message =
                     Some(Text(Success(frame.id, Subscribed_ack)))

\* C21: a valid SlotsSubscribe on an already-subscribed connection replaces
\* the active filter and is acknowledged again with "subscribed"; every push
\* emitted afterwards is computed with the newest filter and stamped with the
\* id of the most recent successful SlotsSubscribe call.
C21_ResubscribeTakesEffect ==
    /\ []PushesUseNewestSubscribe
    /\ [][ResubscribeReplaces]_vars

\* Two successful calls under different ids and with different filters were
\* acknowledged, and the last message fed is a Slot push made after both,
\* whose payload differs from the one the first filter gives.
C21_Witness ==
    LET fed == websocket_tx["w1"].fed
        calls == ValidSubscribes("w1")
    IN /\ Len(calls) = 2
       /\ calls[1].id # calls[2].id
       /\ calls[1].params.config # calls[2].params.config
       /\ fed # <<>>
       /\ IsPush(fed[Len(fed)])
       /\ fed[Len(fed)].output.result.type = "Slot"
       /\ AcksBefore("w1", Len(fed)) = 2
       /\ ~PushMadeFor("w1", Len(fed), calls[1])

\* ------------------------------------------------------------------------
\* SpecGuard: the reducer serving LatestBlockhash and Slot requests that
\* carry a min_context_slot, against the Slot and Status events of two slots.
\* ------------------------------------------------------------------------
GuardSlots == {1, 2}

GuardMinContextSlots == {None} \cup {Some(slot) : slot \in GuardSlots}

GuardRequests ==
    {[method |-> "LatestBlockhash", id |-> 1, commitment |-> c,
      rollback |-> r, min_context_slot |-> m]
        : c \in Commitments, r \in {0, 1, MAX_RECENT_BLOCKHASHES + 1},
          m \in GuardMinContextSlots}
    \cup {[method |-> "Slot", id |-> 1, commitment |-> c, min_context_slot |-> m]
        : c \in Commitments, m \in GuardMinContextSlots}

GuardRecvStatus ==
    /\ \E slot \in GuardSlots, commitment \in Commitments :
           GeyserStatus(slot, commitment)
    /\ UNCHANGED <<mux_vars, conn_vars, ingest_vars, fee_vars, history_vars>>

GuardRecvSlot ==
    /\ \E slot \in GuardSlots : GeyserSlot(slot, "H1", 1, <<>>)
    /\ UNCHANGED <<mux_vars, conn_vars, ingest_vars, fee_vars, history_vars>>

GuardRecvRequests ==
    /\ \E request \in GuardRequests : RequestsArm(<<request>>, FALSE)
    /\ UNCHANGED <<mux_vars, conn_vars, ingest_vars, fee_vars, history_vars>>

NextGuard ==
    \/ GuardRecvStatus
    \/ GuardRecvSlot
    \/ GuardRecvRequests

SpecGuard == Init /\ [][NextGuard]_vars

\* `request` was served alone in this turn, with the output `output`.
ServedWith(request, output) ==
    /\ rpc_requests = Some(<<request>>)
    /\ outputs = Some(<<output>>)

\* The output is the failure MinContextSlotNotReached.
FailsOnGuard(output) ==
    /\ ~output.ok
    /\ output.error.code = "MinContextSlotNotReached"

\* What the guard does to a request with min_context_slot = m, the cached
\* latest slot of its commitment being L.
GuardLaw(request, output) ==
    LET L == LatestSlot(latest_blockhash_storage, request.commitment)
        m == request.min_context_slot[1]
    IN IF L < m
       THEN output = Failure(request.id, MinContextSlotNotReached(L))
       ELSE ~FailsOnGuard(output)

\* C22 as stated: for LatestBlockhash and Slot requests with
\* min_context_slot = m, if the cached latest slot L of the requested
\* commitment is below m the output is the failure MinContextSlotNotReached
\* with context_slot = L, and if L >= m the guard causes no failure.
C22_MinContextGuard ==
    \A request \in GuardRequests :
        (/\ rpc_requests = Some(<<request>>)
         /\ outputs # None
         /\ request.min_context_slot # None)
        => GuardLaw(request, outputs[1][1])

\* C22, amended: the same for Slot requests and for LatestBlockhash requests
\* whose rollback is at most MAX_RECENT_BLOCKHASHES; a LatestBlockhash
\* request with a larger rollback fails with invalid_params("rollback exceeds
\* 300") whatever its min_context_slot, and a request without
\* min_context_slot never fails on the guard.
C22_MinContextGuardAfterRollbackCheck ==
    \A request \in GuardRequests :
        (/\ rpc_requests = Some(<<request>>)
         /\ outputs # None)
        => LET output == outputs[1][1]
           IN IF /\ request.method = "LatestBlockhash"
                 /\ request.rollback > MAX_RECENT_BLOCKHASHES
              THEN output = Failure(request.id,
                                InvalidParams("rollback exceeds 300"))
              ELSE IF request.min_context_slot = None
              THEN ~FailsOnGuard(output)
              ELSE GuardLaw(request, output)

\* A LatestBlockhash request with rollback 1 and min_context_slot 2 was
\* served while the cached latest slot of its commitment was 1, set by a
\* Status, and was refused by the guard.
C22_Witness ==
    \E request \in GuardRequests :
        /\ request.min_context_slot = Some(2)
        /\ request.method = "LatestBlockhash"
        /\ request.rollback = 1
        /\ LatestSlot(latest_blockhash_storage, request.commitment) = 1
        /\ ServedWith(request, Failure(request.id, MinContextSlotNotReached(1)))

\* ------------------------------------------------------------------------
\* SpecStore: the blockhash store under the Slot and Status events of one
\* slot more than the eviction limit, so that as many entries as the limit
\* can be Finalized while another is in the map.  The slots of the Slot
\* events are recorded.
\* ------------------------------------------------------------------------
\* MAX_RECENT_BLOCKHASHES + 10
FinalizedLimit == MAX_RECENT_BLOCKHASHES + FINALIZED_MARGIN

StoreSlots == 0 .. FinalizedLimit

StoreStatus ==
    /\ \E slot \in StoreSlots, commitment \in Commitments :
           GeyserStatus(slot, commitment)
    /\ UNCHANGED <<mux_vars, conn_vars, ingest_vars, fee_vars, history_vars>>

StoreSlot ==
    /\ \E slot \in StoreSlots :
           /\ GeyserSlot(slot, "H1", 1, <<>>)
           /\ ingested' = ingested \cup {slot}
    /\ UNCHANGED <<mux_vars, conn_vars, ingest_vars, fee_vars, status_applied,
                   geyser_log, pushed_log>>

NextStore ==
    \/ StoreStatus
    \/ StoreSlot

SpecStore == Init /\ [][NextStore]_vars

\* The entries of the map whose current commitment is Finalized.
FinalizedEntries == AtCommitment(latest_blockhash_storage, "Finalized")

\* C23: in every reachable state of the blockhash store the finalized
\* counter equals the number of map entries whose current commitment is
\* Finalized, also after repeated Finalized statuses for one slot, after
\* push_block overwrites a Finalized entry and after a later non-Finalized
\* status for a Finalized slot.
C23_CounterCountsFinalized ==
    latest_blockhash_storage.finalized_total = Cardinality(FinalizedEntries)

\* What the code keeps: the counter is never below the number of Finalized
\* entries and never above the limit between two events.
CounterBoundsFinalized ==
    /\ Cardinality(FinalizedEntries) <= latest_blockhash_storage.finalized_total
    /\ latest_blockhash_storage.finalized_total <= FinalizedLimit

\* The entries that leave the map in a step.
Evicted ==
    DOMAIN latest_blockhash_storage.slots \ DOMAIN latest_blockhash_storage'.slots

\* A step that removes entries is a Status whose first half leaves the
\* counter above the limit; it removes the lowest entries of the map, the
\* highest of them the only Finalized one, which takes the counter back to
\* the limit and ends the loop.
EvictionLaw ==
    Evicted # {} =>
        /\ \E slot \in StoreSlots, commitment \in Commitments :
               /\ GeyserStatus(slot, commitment)
               /\ SetCommitment(latest_blockhash_storage, slot, commitment)
                      .finalized_total > FinalizedLimit
               /\ \A s \in Evicted :
                      (SetCommitment(latest_blockhash_storage, slot, commitment)
                           .slots[s].commitment = "Finalized") <=> s = Max(Evicted)
        /\ \A s \in Evicted, kept \in DOMAIN latest_blockhash_storage'.slots :
               s < kept
        /\ latest_blockhash_storage'.finalized_total = FinalizedLimit

\* C24: after every update_commitment call the number of Finalized entries
\* in the map is at most MAX_RECENT_BLOCKHASHES + 10, and eviction only ever
\* removes the lowest-numbered entry of the map, one at a time, and only
\* while the finalized counter exceeds that limit.
C24_EvictionKeepsFinalizedWithinLimit ==
    /\ [](Cardinality(FinalizedEntries) <= FinalizedLimit)
    /\ [][EvictionLaw]_vars

\* Every slot was ingested, as many entries as the limit are Finalized and
\* counted, and the lowest slot has left the map.
C24_Witness ==
    /\ ingested = StoreSlots
    /\ DOMAIN latest_blockhash_storage.slots = StoreSlots \ {0}
    /\ FinalizedEntries = StoreSlots \ {0}
    /\ latest_blockhash_storage.finalized_total = FinalizedLimit

\* The Status { slot, commitment } steps by whether the slot is in the map.
StoreStatusOnPresent(slot, commitment) ==
    /\ slot \in DOMAIN latest_blockhash_storage.slots
    /\ GeyserStatus(slot, commitment)

StoreStatusOnAbsent(slot, commitment) ==
    /\ slot \notin DOMAIN latest_blockhash_storage.slots
    /\ GeyserStatus(slot, commitment)

\* slot_processed changes only in a Processed status for a present slot
\* above it, and then to that slot.
ProcessedOnlyAdvances ==
    \/ latest_blockhash_storage'.slot_processed =
           latest_blockhash_storage.slot_processed
    \/ \E slot \in StoreSlots :
           /\ StoreStatusOnPresent(slot, "Processed")
           /\ slot > latest_blockhash_storage.slot_processed
           /\ latest_blockhash_storage'.slot_processed = slot

\* A Confirmed or Finalized status for a present slot leaves that slot in
\* slot_confirmed or slot_finalized, lower than the old value or not.
ConfirmedFinalizedAdopt ==
    \A slot \in StoreSlots :
        /\ StoreStatusOnPresent(slot, "Confirmed") =>
               latest_blockhash_storage'.slot_confirmed = slot
        /\ StoreStatusOnPresent(slot, "Finalized") =>
               latest_blockhash_storage'.slot_finalized = slot

\* A status for a slot that is not in the map, and a push_block, change none
\* of the three.
AbsentChangesNone ==
    (\/ \E slot \in StoreSlots, commitment \in Commitments :
            StoreStatusOnAbsent(slot, commitment)
     \/ \A slot \in StoreSlots, commitment \in Commitments :
            ~GeyserStatus(slot, commitment))
    => CachedLatest(latest_blockhash_storage') =
           CachedLatest(latest_blockhash_storage)

\* C25: across any sequence of push_block and update_commitment calls
\* slot_processed never decreases (it changes only on a Processed status for
\* a present slot strictly greater than its value), slot_confirmed and
\* slot_finalized take the slot of the most recently applied Confirmed or
\* Finalized status for a present slot even when it is lower than the
\* previous value, and a status for a slot absent from the map changes none
\* of the three.
C25_CachedSlotRules ==
    /\ [][latest_blockhash_storage'.slot_processed >=
              latest_blockhash_storage.slot_processed]_vars
    /\ [][ProcessedOnlyAdvances]_vars
    /\ [][ConfirmedFinalizedAdopt]_vars
    /\ [][AbsentChangesNone]_vars

\* slot_processed has advanced to the highest slot while slot_confirmed and
\* slot_finalized each stand below an entry that is at their level: both
\* took a lower slot after a higher one.
C25_Witness ==
    /\ latest_blockhash_storage.slot_processed = Max(StoreSlots)
    /\ \E s \in AtCommitment(latest_blockhash_storage, "Confirmed") :
           s > latest_blockhash_storage.slot_confirmed
    /\ \E s \in AtCommitment(latest_blockhash_storage, "Finalized") :
           s > latest_blockhash_storage.slot_finalized
    /\ latest_blockhash_storage.slot_confirmed > 0
    /\ latest_blockhash_storage.slot_finalized > 0

\* C30: update_commitment always terminates: in every reachable state of the
\* store and for every Status the eviction loop ends after finitely many
\* pop_first steps, the map never being empty while the finalized counter is
\* still above the limit.
C30_EvictionTerminates ==
    /\ loop_state # "spinning"
    /\ \A slot \in StoreSlots, commitment \in Commitments :
           ~EvictionSpins(update_commitment(latest_blockhash_storage, slot,
                                            commitment))

\* The eviction loop has emptied the map: the counter stands at the limit,
\* which ended the loop, and every slot had been ingested.
C30_Witness ==
    /\ ingested = StoreSlots
    /\ latest_blockhash_storage.slots = <<>>
    /\ latest_blockhash_storage.finalized_total = FinalizedLimit

\* C29: for every reachable store and every LatestBlockhash request with
\* rollback in 1 .. MAX_RECENT_BLOCKHASHES the rollback walk never decrements
\* the slot number below 0: a walk that stands on slot 0 ends with the
\* failure "failed to rollback block" and executes no `slot -= 1` there,
\* which would panic under overflow checks and wrap without them.
C29_WalkNeverDecrementsZero ==
    /\ loop_state # "panicked"
    /\ \A request \in LatestBlockhashRequests :
           request.rollback \in 1 .. MAX_RECENT_BLOCKHASHES =>
               HandleLatestBlockhash(request, latest_blockhash_storage, TRUE)
                   # Panic

\* ------------------------------------------------------------------------
\* SpecPipe: the two channels in front of the reducer.  Producers push the
\* Slot and Status events of one slot and the shutdown sentinel while the
\* update loop runs (a later push fails and changes nothing), one
\* on_request call enqueues a batch, and one connection subscribes and reads
\* its notices or falls behind.  The messages pushed and the notices
\* published are recorded.
\* ------------------------------------------------------------------------
\* One event more than MaxNotices, so that a subscriber can lag and the
\* reducer go on.
MaxPushed == MaxNotices + 1

PipeMessages ==
    {[type |-> "Status", slot |-> WsSlot, commitment |-> c] : c \in Commitments}
    \cup {[type |-> "Slot", slot |-> WsSlot, hash |-> "H1", height |-> 1,
           transactions |-> <<>>]}

\* [getSlot, getLatestBlockhash], both with default parameters.
PipeBody ==
    <<MethodCall(1, "getSlot", DefaultParams),
      MethodCall(2, "getLatestBlockhash", DefaultParams)>>

\* The notice the reducer publishes for an event.
NoticeOf(message) ==
    IF message.type = "Status"
    THEN [type |-> "Status", slot |-> message.slot,
          commitment |-> message.commitment]
    ELSE [type |-> "Slot",
          info |-> StreamsSlotInfoNew(message.slot, message.hash,
                                      message.height, message.transactions)]

PipePush ==
    /\ Len(pushed_log) < MaxPushed
    /\ ~ReceiverDropped
    /\ \E message \in PipeMessages :
           /\ PushGeyserMessage(message)
           /\ pushed_log' = Append(pushed_log, Some(message))
    /\ UNCHANGED <<reducer_locals, streams_rx, mux_vars, conn_vars, fee_vars,
                   ingested, status_applied, geyser_log>>

PipeShutdown ==
    /\ Len(pushed_log) < MaxPushed
    /\ ~ReceiverDropped
    /\ Shutdown
    /\ pushed_log' = Append(pushed_log, None)
    /\ UNCHANGED <<reducer_locals, streams_rx, mux_vars, conn_vars, fee_vars,
                   ingested, status_applied, geyser_log>>

PipeIngest ==
    /\ GeyserArmReady
    /\ GeyserArm(Head(geyser_rx))
    /\ geyser_rx' = Tail(geyser_rx)
    /\ broadcast_log' =
           IF Head(geyser_rx) # None /\ loop_state' = "running"
           THEN Append(broadcast_log, NoticeOf(Head(geyser_rx)[1]))
           ELSE broadcast_log
    /\ UNCHANGED <<mux_vars, ws_vars, updates_log, frames_log, fee_vars,
                   history_vars>>

PipeServe ==
    /\ RequestsArmReady
    /\ RecvBatch

PipeRequest ==
    \E t \in Tasks, batched_calls \in {TRUE} :
        OnRequest(t, "Solana", batched_calls, PipeBody)

PipeResponse == \E t \in Tasks : SelectResponse(t)

PipeTimeout == \E t \in Tasks : SelectTimeout(t)

NextPipe ==
    \/ PipePush
    \/ PipeShutdown
    \/ PipeIngest
    \/ PipeServe
    \/ PipeRequest
    \/ PipeResponse
    \/ PipeTimeout
    \/ WsConnect
    \/ ResubNotice

SpecPipe == Init /\ [][NextPipe]_vars

\* The state of the reducer after the events of a log, applied in their
\* order from the initial state: the store, the window, the notices published
\* and whether the shutdown sentinel was met, which ends the loop.
ReplayStart ==
    [storage |-> StorageDefault, window |-> <<>>, notices |-> <<>>,
     stopped |-> FALSE]

ReplayEvent(state, maybe_message) ==
    IF maybe_message = None THEN [state EXCEPT !.stopped = TRUE]
    ELSE LET message == maybe_message[1]
         IN IF message.type = "Status"
            THEN [state EXCEPT
                     !.storage = update_commitment(@, message.slot,
                                                   message.commitment),
                     !.window = IF message.slot \in DOMAIN @
                                THEN [@ EXCEPT ![message.slot].commitment =
                                                   message.commitment]
                                ELSE @,
                     !.notices = Append(@, NoticeOf(message))]
            ELSE [state EXCEPT
                     !.storage = push_block(@, message.slot, message.height,
                                            message.hash),
                     !.window = WindowInsert(@, message.slot,
                                    StreamsSlotInfoNew(message.slot, message.hash,
                                        message.height, message.transactions)),
                     !.notices = Append(@, NoticeOf(message))]

RECURSIVE Replay(_, _)
Replay(state, log) ==
    IF log = <<>> \/ state.stopped THEN state
    ELSE Replay(ReplayEvent(state, Head(log)), Tail(log))

\* A step of the update loop takes a message from one of its channels.
TakesIngest == Len(geyser_rx') < Len(geyser_rx)

TakesBatch == Len(requests_rx') < Len(requests_rx)

\* A batch is taken only when no ingest message is buffered; with both
\* channels non-empty the step of the loop takes the oldest ingest message
\* and leaves the batches where they are.
IngestFirst ==
    /\ TakesBatch => geyser_rx = <<>>
    /\ (geyser_rx # <<>> /\ requests_rx # <<>> /\ (TakesIngest \/ TakesBatch))
           => /\ geyser_rx' = Tail(geyser_rx)
              /\ requests_rx' = requests_rx

\* The outputs computed for a batch are those of its requests on the state
\* that every message pushed so far leaves.
ResponseReflectsPushed ==
    (TakesBatch /\ outputs' # None) =>
        LET state == Replay(ReplayStart, pushed_log)
            requests == Head(requests_rx).requests
        IN outputs' = Some([i \in 1 .. Len(requests) |->
                               HandleRequest(requests[i], state.storage,
                                             state.window, FALSE)])

Applied == SubSeq(pushed_log, 1, Len(pushed_log) - Len(geyser_rx))

\* The channel holds the messages pushed and not yet taken, oldest first.
IngestFifo ==
    geyser_rx = SubSeq(pushed_log, Len(pushed_log) - Len(geyser_rx) + 1,
                       Len(pushed_log))

\* The store and the window are those the taken messages leave when applied
\* in the order pushed, and one notice per applied event was published, in
\* that order, whatever the subscribers did.
AppliedInOrder ==
    LET state == Replay(ReplayStart, Applied)
    IN /\ latest_blockhash_storage = state.storage
       /\ slots_info = state.window
       /\ broadcast_log = state.notices
       /\ state.stopped <=> loop_state = "stopped"
       /\ loop_state \in {"running", "stopped"}

\* While the loop runs, a buffered ingest message can be taken, whatever the
\* state of the receivers.
PublishNeverBlocks ==
    (loop_state = "running" /\ geyser_rx # <<>>) => ENABLED PipeIngest

\* A step that applies an event leaves its notice as the newest message of
\* every live receiver.
NoticeDelivered ==
    (TakesIngest /\ Head(geyser_rx) # None) =>
        \A r \in DOMAIN streams_rx :
            /\ r \in DOMAIN streams_rx'
            /\ streams_rx'[r].queue # <<>>
            /\ streams_rx'[r].queue[Len(streams_rx'[r].queue)] =
                   NoticeOf(Head(geyser_rx)[1])

\* C27: the reducer applies ingest events in exactly the order they were
\* pushed and publishes exactly one notice per applied event in that same
\* order (Slot event -> Slot notice, Status event -> Status notice);
\* publishing never blocks or fails the reducer, and its state updates are
\* identical whether there are zero subscribers, slow subscribers or lagging
\* subscribers.
C27_AppliedAndPublishedInOrder ==
    /\ [](IngestFifo /\ AppliedInOrder /\ PublishNeverBlocks)
    /\ [][NoticeDelivered]_vars

\* Three events were applied while the subscriber read none of their
\* notices: it lags, a Slot and a Status notice are among those published,
\* and the loop still runs.
C27_Witness ==
    /\ Len(broadcast_log) = MaxPushed
    /\ \E i, j \in 1 .. Len(broadcast_log) :
           /\ broadcast_log[i].type = "Slot"
           /\ broadcast_log[j].type = "Status"
    /\ "w1" \in DOMAIN streams_rx
    /\ streams_rx["w1"].lagged
    /\ loop_state = "running"

\* The notice published in a step, if it is a Status notice.
PublishesStatus ==
    /\ Len(broadcast_log') = Len(broadcast_log) + 1
    /\ broadcast_log'[Len(broadcast_log')].type = "Status"

\* C28: every Status notice the reducer publishes is a commitment advance
\* for an existing slot: at the moment of publication the named slot is in
\* the blockhash store and its stored commitment equals the commitment of
\* the notice.
C28_StatusNoticeNamesStoredSlot ==
    [][PublishesStatus =>
          LET notice == broadcast_log'[Len(broadcast_log')]
          IN /\ notice.slot \in DOMAIN latest_blockhash_storage'.slots
             /\ latest_blockhash_storage'.slots[notice.slot].commitment =
                    notice.commitment]_vars

\* ------------------------------------------------------------------------
\* C31: store and window agree on the commitment of a slot.
\* ------------------------------------------------------------------------
\* The slots held by the blockhash store and by the recent-slots window.
InBoth == DOMAIN latest_blockhash_storage.slots \cap DOMAIN slots_info

\* C31: after any sequence of ingest events, every slot that is present both
\* in the blockhash store and in the recent-slots window has the same
\* commitment in the window's SlotInfo as in the blockhash store.
C31_WindowAndStoreAgree ==
    \A slot \in InBoth :
        slots_info[slot].commitment =
            latest_blockhash_storage.slots[slot].commitment

\* A Status has moved a slot held by both to Finalized, while another slot
\* is held by the store alone (the window has evicted it) and a third by the
\* window alone (the store has evicted it).
C31_Witness ==
    /\ \E slot \in InBoth :
           latest_blockhash_storage.slots[slot].commitment = "Finalized"
    /\ DOMAIN latest_blockhash_storage.slots \ DOMAIN slots_info # {}
    /\ DOMAIN slots_info \ DOMAIN latest_blockhash_storage.slots # {}

\* ------------------------------------------------------------------------
\* SpecAck: the connection of SpecResub on a sink that may refuse a message
\* or a flush, which ends the connection.
\* ------------------------------------------------------------------------
NextAck ==
    \/ WsRecvStatus
    \/ WsRecvSlot
    \/ WsConnect
    \/ ResubFrame
    \/ WsSend
    \/ WsFlushed
    \/ WsNotice

SpecAck == Init /\ [][NextAck]_vars

\* The number of acknowledgements fed to the socket of `c`.
AcksFed(c) == Len(SelectSeq(websocket_tx[c].fed, IsAck))

\* No push is found among the messages fed to `c` before an acknowledgement;
\* an acknowledgement is fed for a successful call only.
NoPushBeforeFirstAck(c) ==
    /\ AcksFed(c) <= Len(ValidSubscribes(c))
    /\ \A i \in 1 .. Len(websocket_tx[c].fed) :
           IsPush(websocket_tx[c].fed[i]) => AcksBefore(c, i) >= 1

\* While the loop of `c` runs: it has a filter exactly when a call has
\* succeeded; the acknowledgement of the newest successful call either has
\* been fed or is the pending message, every earlier one has been fed; and a
\* push waits in the pending slot only when every acknowledgement has been
\* fed, the push carrying the id of the newest call.
AckFedBeforePushIsMade(c) ==
    LET task == websockets[c]
        calls == ValidSubscribes(c)
    IN task.pc = "loop" =>
           IF calls = <<>>
           THEN /\ task.filter = None
                /\ task.websocket_tx_message # None =>
                       /\ ~IsPush(task.websocket_tx_message[1])
                       /\ ~IsAck(task.websocket_tx_message[1])
           ELSE /\ task.filter # None
                /\ AcksFed(c) >= Len(calls) - 1
                /\ AcksFed(c) < Len(calls) <=>
                       task.websocket_tx_message =
                           Some(Text(Success(calls[Len(calls)].id, Subscribed_ack)))
                /\ (task.websocket_tx_message # None
                    /\ IsPush(task.websocket_tx_message[1])) =>
                       /\ AcksFed(c) = Len(calls)
                       /\ task.websocket_tx_message[1].output.id =
                              calls[Len(calls)].id

\* A step in which `c` receives a notice while it has no filter feeds
\* nothing, leaves nothing in the pending slot and leaves `c` unsubscribed.
SilentWithoutFilter ==
    \A c \in Connections :
        (/\ Len(updates_log'[c]) = Len(updates_log[c]) + 1
         /\ updates_log'[c][Len(updates_log'[c])].update.type \in {"Status", "Slot"}
         /\ updates_log'[c][Len(updates_log'[c])].filter = None)
        => /\ websocket_tx'[c] = websocket_tx[c]
           /\ websockets'[c].websocket_tx_message = None
           /\ websockets'[c].filter = None
           /\ websockets'[c].pc = "loop"

\* C32: on a WebSocket connection no Status or Slot push is fed to the
\* socket before the "subscribed" acknowledgement of the first successful
\* SlotsSubscribe has been fed: a notice received while no filter is active
\* is consumed without emitting anything, and the acknowledgement of a
\* subscribe is always fed before any push is computed under the filter of
\* that subscribe.
C32_AckBeforePushes ==
    /\ [](\A c \in Connections :
             NoPushBeforeFirstAck(c) /\ AckFedBeforePushIsMade(c))
    /\ [][SilentWithoutFilter]_vars

\* A connection received a Slot notice while it had no filter and fed
\* nothing for it; it then subscribed, and what it has been fed is the
\* acknowledgement followed by the push of a later notice.
C32_Witness ==
    LET fed == websocket_tx["w1"].fed
        log == updates_log["w1"]
    IN /\ Len(log) = 3
       /\ log[2].update.type = "Slot"
       /\ log[2].filter = None
       /\ log[3].filter # None
       /\ Len(fed) = 2
       /\ IsAck(fed[1])
       /\ IsPush(fed[2])

\* ------------------------------------------------------------------------
\* SpecReject: one WebSocket connection that calls SlotsSubscribe with a
\* config at the limits of the validation, under id 1, and with configs that
\* fail each of its tests, under id 2.  The frames received are recorded.
\* ------------------------------------------------------------------------
\* A key that is no pubkey.
NotAPubkey == 3

\* As many accounts, as many levels and as high a level as try_from accepts.
RejectValidConfig ==
    SubscribeConfig(<<1>>, <<2>>, <<10000, 5000, 5000, 5000, 5000>>)

RejectInvalidConfigs ==
    {SubscribeConfig(<<NotAPubkey>>, <<>>, <<>>),
     SubscribeConfig(<<>>, <<1, NotAPubkey>>, <<>>),
     SubscribeConfig(<<1, 2>>, <<1>>, <<>>),
     SubscribeConfig(<<>>, <<>>, <<1, 2, 3, 4, 5, 6>>),
     SubscribeConfig(<<>>, <<>>, <<5000, 10001>>)}

RejectFrames ==
    {SubscribeFrame(1, RejectValidConfig)}
    \cup {SubscribeFrame(2, config) : config \in RejectInvalidConfigs}

RejectFrame ==
    /\ \E c \in Connections :
           /\ websockets[c].pc = "loop"
           /\ websockets[c].websocket_rx < MaxFrames
           /\ \E frame \in RejectFrames :
                  /\ WsInbound(c, frame, TRUE)
                  /\ frames_log' = [frames_log EXCEPT ![c] = Append(@, frame)]
    /\ UNCHANGED <<reducer_locals, mux_vars, broadcast_log, updates_log,
                   ingest_vars, fee_vars, history_vars>>

NextReject ==
    \/ WsRecvStatus
    \/ WsRecvSlot
    \/ WsConnect
    \/ RejectFrame
    \/ WsSend
    \/ WsFlushed
    \/ WsNotice

SpecReject == Init /\ [][NextReject]_vars

\* The four ways in which the parameters of a call fail validation.
UnparsablePubkey(config) ==
    \/ \E i \in 1 .. Len(config.read_write) : ~ParsesAsPubkey(config.read_write[i])
    \/ \E i \in 1 .. Len(config.read_only) : ~ParsesAsPubkey(config.read_only[i])

TooManyAccounts(config) ==
    Len(config.read_write) + Len(config.read_only) > MAX_TX_ACCOUNT_LOCKS

TooManyLevels(config) == Len(config.levels) > 5

LevelTooBig(config) == \E i \in 1 .. Len(config.levels) : config.levels[i] > 10000

FailsValidation(frame) ==
    /\ frame.kind = "MethodCall"
    /\ frame.method = "SlotsSubscribe"
    /\ \/ UnparsablePubkey(frame.params.config)
       \/ TooManyAccounts(frame.params.config)
       \/ TooManyLevels(frame.params.config)
       \/ LevelTooBig(frame.params.config)

\* A JSON-RPC failure with the code of invalid params.
IsFailure(message) ==
    /\ message.type = "Text"
    /\ ~message.output.ok
    /\ message.output.error.code = "invalid_params"

\* A step in which `c` receives a call that fails validation leaves a
\* failure with the id of the call as the pending message, feeds nothing,
\* leaves the filter and its id as they were and the loop running, with its
\* receiver of notices.
RejectedCallChangesNothing ==
    \A c \in Connections :
        (/\ Len(frames_log'[c]) = Len(frames_log[c]) + 1
         /\ FailsValidation(frames_log'[c][Len(frames_log'[c])]))
        => LET frame == frames_log'[c][Len(frames_log'[c])]
           IN /\ websockets'[c].websocket_tx_message # None
              /\ IsFailure(websockets'[c].websocket_tx_message[1])
              /\ websockets'[c].websocket_tx_message[1].output.id = frame.id
              /\ websockets'[c].filter = websockets[c].filter
              /\ websockets'[c].pc = "loop"
              /\ websockets'[c].loop_close_reason = None
              /\ websocket_tx'[c] = websocket_tx[c]
              /\ c \in DOMAIN streams_rx'

\* The ids of the calls of `c` that fail validation, in the order received.
RejectedIds(c) ==
    LET rejected == SelectSeq(frames_log[c], FailsValidation)
    IN [i \in 1 .. Len(rejected) |-> rejected[i].id]

\* The ids of the failures fed to `c`, with the one pending at their end.
FailureIds(c) ==
    LET fed == SelectSeq(websocket_tx[c].fed, IsFailure)
        ids == [i \in 1 .. Len(fed) |-> fed[i].output.id]
        pending == websockets[c].websocket_tx_message
    IN IF pending # None /\ IsFailure(pending[1])
       THEN Append(ids, pending[1].output.id)
       ELSE ids

\* C33: a SlotsSubscribe call whose parameters fail validation (unparsable
\* pubkey, more than MAX_TX_ACCOUNT_LOCKS accounts in total, more than 5
\* levels, a level above 10000) is answered with a JSON-RPC failure that
\* carries the id of the call, leaves the active filter and its id as they
\* were (or the connection unsubscribed) and does not close the connection:
\* while the loop runs the failures fed or pending are those of the rejected
\* calls, one for one.
C33_RejectedSubscribe ==
    /\ [][RejectedCallChangesNothing]_vars
    /\ [](\A c \in Connections :
             websockets[c].pc = "loop" => FailureIds(c) = RejectedIds(c))

\* A connection subscribed under id 1 with the config at the limits, then
\* sent a call under id 2 with a level of 10001: it was fed the
\* acknowledgement, the failure under id 2 and then a push under id 1, and
\* its loop still runs with the filter of the first call.
C33_Witness ==
    LET fed == websocket_tx["w1"].fed
    IN /\ Len(frames_log["w1"]) = 2
       /\ frames_log["w1"][2] =
              SubscribeFrame(2, SubscribeConfig(<<>>, <<>>, <<5000, 10001>>))
       /\ Len(fed) = 3
       /\ IsAck(fed[1])
       /\ IsFailure(fed[2]) /\ fed[2].output.id = 2
       /\ IsPush(fed[3]) /\ fed[3].output.id = 1
       /\ websockets["w1"].pc = "loop"
       /\ websockets["w1"].filter =
              Some([id |-> 1, filter |-> RejectValidConfig])

\* ------------------------------------------------------------------------
\* SpecShutdown: producers push the events of slot 0 and the shutdown
\* sentinel, one on_request call asks for the latest blockhash one block
\* back, and the reducer task is scheduled fairly.  Producers run on other
\* threads than the reducer: what they send while the requests arm computes
\* its outputs is in the channel when the arm ends.
\* ------------------------------------------------------------------------
ShutSlot == Min(SlotIds)

ShutMessages ==
    {[type |-> "Status", slot |-> ShutSlot, commitment |-> c] : c \in Commitments}
    \cup {[type |-> "Slot", slot |-> ShutSlot, hash |-> "H1", height |-> 1,
           transactions |-> <<>>]}

\* getLatestBlockhash with commitment Processed and rollback 1.
ShutBody == <<MethodCall(1, "getLatestBlockhash", RollbackParams)>>

\* What producers send during one requests arm: at most an event and the
\* sentinel.
ShutArrivals ==
    {arrivals \in SeqsUpTo({None} \cup {Some(message) : message \in ShutMessages}, 2) :
        Len(pushed_log) + Len(arrivals) <= MaxPushed}

\* The requests arm on the oldest buffered batch while the producers send
\* `arrivals`: geyser_rx was polled before the arm was taken and is dropped
\* only when the loop returns or has unwound, so the channel accepts them
\* also when the arm panics.
RecvBatchWhilePushed(arrivals) ==
    /\ requests_rx # <<>>
    /\ LET batch == Head(requests_rx)
           t == batch.response_tx
       IN /\ RequestsArm(batch.requests, http_tasks[t].shutdown)
          /\ http_tasks' =
                 IF outputs' # None /\ http_tasks[t].pc = "select"
                 THEN [http_tasks EXCEPT ![t].response_rx = outputs']
                 ELSE http_tasks
    /\ requests_rx' = Tail(requests_rx)
    /\ geyser_rx' = geyser_rx \o arrivals
    /\ UNCHANGED conn_vars

ShutPush ==
    /\ Len(pushed_log) < MaxPushed
    /\ ~ReceiverDropped
    /\ \E message \in ShutMessages :
           /\ PushGeyserMessage(message)
           /\ pushed_log' = Append(pushed_log, Some(message))
    /\ UNCHANGED <<reducer_locals, streams_rx, mux_vars, conn_vars, fee_vars,
                   ingested, status_applied, geyser_log>>

ShutServe ==
    /\ RequestsArmReady
    /\ \E arrivals \in ShutArrivals :
           /\ RecvBatchWhilePushed(arrivals)
           /\ pushed_log' = pushed_log \o arrivals
    /\ UNCHANGED <<fee_vars, ingested, status_applied, geyser_log>>

ShutRequest == \E t \in Tasks : OnRequest(t, "Triton", FALSE, ShutBody)

NextShutdown ==
    \/ ShutPush
    \/ PipeShutdown
    \/ PipeIngest
    \/ ShutServe
    \/ ShutRequest
    \/ PipeResponse
    \/ PipeTimeout

\* The reducer task is scheduled fairly: a turn of its loop that can be
\* taken is taken.
ReducerFairness == WF_vars(PipeIngest) /\ WF_vars(ShutServe)

SpecShutdown == Init /\ [][NextShutdown]_vars /\ ReducerFairness

\* shutdown() has placed the sentinel on the ingest channel.
SentinelPlaced == \E i \in 1 .. Len(pushed_log) : pushed_log[i] = None

\* The update loop has ended.
Terminated == loop_state # "running"

\* The store, the window and the notices published are those that the
\* events pushed before the first sentinel leave, applied in their order.
DrainedToSentinel ==
    LET state == Replay(ReplayStart, pushed_log)
    IN /\ latest_blockhash_storage = state.storage
       /\ slots_info = state.window
       /\ broadcast_log = state.notices

\* Once the sentinel is placed the update loop ends.
ShutdownTerminates == SentinelPlaced ~> Terminated

\* An update loop that has ended on the sentinel has applied the events
\* pushed before it and no other.
StoppedHasDrained == loop_state = "stopped" => DrainedToSentinel

\* C34: under fair scheduling of the reducer task, once shutdown() has
\* placed the sentinel on the ingest channel the reducer eventually
\* terminates, and before terminating it applies every ingest event that was
\* pushed before the sentinel and none that was pushed after it, regardless
\* of how many client request batches are pending.
C34_ShutdownDrainsIngest ==
    /\ SentinelPlaced ~> Terminated
    /\ []((SentinelPlaced /\ Terminated) => DrainedToSentinel)

====
